---------------------------- MODULE Spec2Model ----------------------------
(***************************************************************************)
(* A model of the Infinidesk compositor core: the canvas/viewport engine   *)
(* (canvas.c), the drawing layer (drawing.c, drawing_ui.c), the view list   *)
(* and view lifecycle (view.c), the Alt-Tab switcher (switcher.c) and the   *)
(* cursor/keyboard input router (cursor.c, keyboard.c).                     *)
(*                                                                         *)
(* C doubles are modelled as exact rationals <<n, d>> (d > 0, lowest       *)
(* terms); non-finite doubles (NaN, infinities) and rounding are outside    *)
(* the model.  Heap objects (views, strokes) are modelled by the order in   *)
(* which they were allocated: a handle is a positive integer, NULL is 0.    *)
(***************************************************************************)
EXTENDS Integers, Sequences, FiniteSets, TLC

VARIABLES
    server,        \* struct infinidesk_server: cursor, grab and seat focus state
    views,         \* server->views, front (topmost) first
    switcher,      \* struct infinidesk_switcher (server->switcher)
    pressed,       \* pointer buttons the seat holds down
    fault,         \* the process has dereferenced a freed view and died
    canvas,        \* struct infinidesk_canvas (server->canvas)
    drawing,       \* struct drawing_layer (server->drawing)
    stroke_alloc,  \* number of strokes drawing_stroke_create has returned
    now_ms,        \* CLOCK_MONOTONIC in milliseconds
    steps,         \* history: number of operations performed
    lastOp,        \* history: the handler that ran last and the branch it took
    committed,     \* history: strokes committed by stroke_end since the last clear_all
    redo_dropped,  \* history: strokes destroyed by a commit's redo-stack clearing
    press_mode,    \* history: <<cursor_mode, grabbed_view>> set by the last press,
                   \* while only cursor motion has followed it
    live           \* history: views created and not yet destroyed

vars == <<server, views, switcher, pressed, fault, canvas, drawing, stroke_alloc,
          now_ms, steps, lastOp, committed, redo_dropped, press_mode, live>>

NULL == 0

(***************************************************************************)
(* Rational arithmetic (the model of double).                              *)
(***************************************************************************)
Abs(n) == IF n < 0 THEN -n ELSE n

RECURSIVE GCD(_, _)
GCD(a, b) == IF b = 0 THEN a ELSE GCD(b, a % b)

Norm(n, d) ==
    LET g == GCD(Abs(n), Abs(d))
        s == IF d < 0 THEN -1 ELSE 1
    IN  <<(s * n) \div g, (s * d) \div g>>

R(n) == <<n, 1>>
RAdd(a, b) == Norm(a[1] * b[2] + b[1] * a[2], a[2] * b[2])
RSub(a, b) == Norm(a[1] * b[2] - b[1] * a[2], a[2] * b[2])
RMul(a, b) == Norm(a[1] * b[1], a[2] * b[2])
RDiv(a, b) == Norm(a[1] * b[2], a[2] * b[1])
RLt(a, b)  == a[1] * b[2] < b[1] * a[2]
RLe(a, b)  == a[1] * b[2] <= b[1] * a[2]
RAbs(a)    == <<Abs(a[1]), a[2]>>

(***************************************************************************)
(* canvas.c                                                                *)
(***************************************************************************)
ZOOM_MIN == <<1, 10>>
ZOOM_MAX == <<4, 1>>
CANVAS_SNAP_DURATION_MS == 800

\* canvas_init; the snap fields are not assigned there and keep the zeroes of
\* the static server object.
canvas_init ==
    [ viewport_x |-> R(0), viewport_y |-> R(0),
      scale |-> R(1),
      is_panning |-> FALSE,
      pan_start_cursor_x |-> R(0), pan_start_cursor_y |-> R(0),
      pan_start_viewport_x |-> R(0), pan_start_viewport_y |-> R(0),
      snap_anim_active |-> FALSE, snap_anim_start_ms |-> 0,
      snap_start_x |-> R(0), snap_start_y |-> R(0),
      snap_target_x |-> R(0), snap_target_y |-> R(0) ]

\* screen = (canvas - viewport) * scale
canvas_to_screen(c, canvas_x, canvas_y) ==
    << RMul(RSub(canvas_x, c.viewport_x), c.scale),
       RMul(RSub(canvas_y, c.viewport_y), c.scale) >>

\* canvas = screen / scale + viewport
screen_to_canvas(c, screen_x, screen_y) ==
    << RAdd(RDiv(screen_x, c.scale), c.viewport_x),
       RAdd(RDiv(screen_y, c.scale), c.viewport_y) >>

canvas_pan_begin(c, cursor_x, cursor_y) ==
    [c EXCEPT !.is_panning = TRUE,
              !.pan_start_cursor_x = cursor_x,
              !.pan_start_cursor_y = cursor_y,
              !.pan_start_viewport_x = c.viewport_x,
              !.pan_start_viewport_y = c.viewport_y]

canvas_pan_update(c, cursor_x, cursor_y) ==
    IF ~c.is_panning THEN c
    ELSE LET delta_x == RSub(cursor_x, c.pan_start_cursor_x)
             delta_y == RSub(cursor_y, c.pan_start_cursor_y)
         IN  [c EXCEPT
                !.viewport_x = RSub(c.pan_start_viewport_x, RDiv(delta_x, c.scale)),
                !.viewport_y = RSub(c.pan_start_viewport_y, RDiv(delta_y, c.scale))]

canvas_pan_end(c) == [c EXCEPT !.is_panning = FALSE]

canvas_pan_delta(c, delta_x, delta_y) ==
    [c EXCEPT !.viewport_x = RSub(c.viewport_x, RDiv(delta_x, c.scale)),
              !.viewport_y = RSub(c.viewport_y, RDiv(delta_y, c.scale))]

\* The clamp at the head of canvas_zoom.
ClampScale(s) ==
    IF RLt(s, ZOOM_MIN) THEN ZOOM_MIN
    ELSE IF RLt(ZOOM_MAX, s) THEN ZOOM_MAX
    ELSE s

\* A zoom that applies the new scale without clamping it.
canvas_zoom_unclamped(c, factor, focus_x, focus_y) ==
    LET new_scale == RMul(c.scale, factor)
        focus == screen_to_canvas(c, focus_x, focus_y)
    IN  IF new_scale = c.scale \/ ~RLt(R(0), new_scale) THEN c
        ELSE [c EXCEPT !.scale = new_scale,
                       !.viewport_x = RSub(focus[1], RDiv(focus_x, new_scale)),
                       !.viewport_y = RSub(focus[2], RDiv(focus_y, new_scale))]

\* A zoom that recomputes the viewport with the old scale.
canvas_zoom_stale_scale(c, factor, focus_x, focus_y) ==
    LET new_scale == ClampScale(RMul(c.scale, factor))
        focus == screen_to_canvas(c, focus_x, focus_y)
    IN  IF new_scale = c.scale THEN c
        ELSE [c EXCEPT !.scale = new_scale,
                       !.viewport_x = RSub(focus[1], RDiv(focus_x, c.scale)),
                       !.viewport_y = RSub(focus[2], RDiv(focus_y, c.scale))]

canvas_zoom(c, factor, focus_x, focus_y) ==
    LET new_scale == ClampScale(RMul(c.scale, factor))
        \* the canvas position under the focus point before the zoom
        focus == screen_to_canvas(c, focus_x, focus_y)
    IN  IF new_scale = c.scale THEN c
        ELSE [c EXCEPT !.scale = new_scale,
                       !.viewport_x = RSub(focus[1], RDiv(focus_x, new_scale)),
                       !.viewport_y = RSub(focus[2], RDiv(focus_y, new_scale))]

canvas_set_scale(c, scale, focus_x, focus_y) ==
    canvas_zoom(c, RDiv(scale, c.scale), focus_x, focus_y)

\* The canvas half of view_snap and of views_gather: remember the current
\* viewport as the start, store the target, sample the clock, activate.
canvas_snap_begin(c, target_x, target_y, time_ms) ==
    [c EXCEPT !.snap_start_x = c.viewport_x,
              !.snap_start_y = c.viewport_y,
              !.snap_target_x = target_x,
              !.snap_target_y = target_y,
              !.snap_anim_start_ms = time_ms,
              !.snap_anim_active = TRUE]

\* canvas_update_snap_animation (declared in canvas.h, called every frame by
\* output_render_custom): t = clamp(elapsed / 800, 0, 1), ease-out cubic
\* 1 - (1 - t)^3, viewport = lerp(start, target, eased), inactive at t = 1.
canvas_update_snap_animation(c, time_ms) ==
    IF ~c.snap_anim_active THEN c
    ELSE LET raw == Norm(time_ms - c.snap_anim_start_ms, CANVAS_SNAP_DURATION_MS)
             t == IF RLt(raw, R(0)) THEN R(0)
                  ELSE IF RLt(R(1), raw) THEN R(1) ELSE raw
             u == RSub(R(1), t)
             eased == RSub(R(1), RMul(u, RMul(u, u)))
             lerp(a, b) == RAdd(a, RMul(RSub(b, a), eased))
         IN  [c EXCEPT !.viewport_x = lerp(c.snap_start_x, c.snap_target_x),
                       !.viewport_y = lerp(c.snap_start_y, c.snap_target_y),
                       !.snap_anim_active = (t # R(1))]

(***************************************************************************)
(* drawing.c                                                               *)
(***************************************************************************)
MIN_POINT_DISTANCE == 2

COLOR_RED   == "RED"
COLOR_GREEN == "GREEN"
COLOR_BLUE  == "BLUE"
Palette == {COLOR_RED, COLOR_GREEN, COLOR_BLUE}

\* A stroke object: its address (allocation order), its point list and colour.
Stroke(id, points, color) == [id |-> id, points |-> points, color |-> color]

\* current_stroke == NULL: the record of the null address.
NoStroke == Stroke(NULL, <<>>, "")

drawing_init ==
    [ drawing_mode |-> FALSE,
      is_drawing |-> FALSE,
      current_stroke |-> NoStroke,
      last_canvas_x |-> R(0), last_canvas_y |-> R(0),
      strokes |-> <<>>,
      redo_stack |-> <<>>,
      current_color |-> COLOR_RED ]

Front(seq) == SubSeq(seq, 1, Len(seq) - 1)
Last(seq)  == seq[Len(seq)]

\* drawing_stroke_end that commits whatever is in progress.
drawing_stroke_end_keep_short(d) ==
    IF ~d.is_drawing \/ d.current_stroke.id = NULL THEN d
    ELSE [d EXCEPT !.strokes = Append(d.strokes, d.current_stroke),
                   !.redo_stack = <<>>,
                   !.current_stroke = NoStroke,
                   !.is_drawing = FALSE]

\* drawing_stroke_end that leaves the redo stack alone on a commit.
drawing_stroke_end_keep_redo(d) ==
    IF ~d.is_drawing \/ d.current_stroke.id = NULL THEN d
    ELSE IF Len(d.current_stroke.points) < 2
         THEN [d EXCEPT !.current_stroke = NoStroke, !.is_drawing = FALSE]
         ELSE [d EXCEPT !.strokes = Append(d.strokes, d.current_stroke),
                        !.current_stroke = NoStroke,
                        !.is_drawing = FALSE]

drawing_stroke_end(d) ==
    IF ~d.is_drawing \/ d.current_stroke.id = NULL THEN d
    ELSE IF Len(d.current_stroke.points) < 2
         \* too short: the stroke is destroyed
         THEN [d EXCEPT !.current_stroke = NoStroke, !.is_drawing = FALSE]
         \* inserted before the list head (at the tail); every redo stroke destroyed
         ELSE [d EXCEPT !.strokes = Append(d.strokes, d.current_stroke),
                        !.redo_stack = <<>>,
                        !.current_stroke = NoStroke,
                        !.is_drawing = FALSE]

drawing_toggle_mode(d) ==
    LET d1 == [d EXCEPT !.drawing_mode = ~d.drawing_mode]
    IN  IF ~d1.drawing_mode /\ d1.is_drawing THEN drawing_stroke_end(d1) ELSE d1

drawing_clear_all(d) ==
    [d EXCEPT !.strokes = <<>>, !.redo_stack = <<>>,
              !.current_stroke = NoStroke, !.is_drawing = FALSE]

\* drawing_undo_last that destroys the undone stroke instead of keeping it.
drawing_undo_last_destroy(d) ==
    IF d.is_drawing /\ d.current_stroke.id # NULL
    THEN [d EXCEPT !.current_stroke = NoStroke, !.is_drawing = FALSE]
    ELSE IF d.strokes = <<>> THEN d
    ELSE [d EXCEPT !.strokes = Front(d.strokes)]

\* drawing_undo_last that pushes the undone stroke at the head of the redo stack.
drawing_undo_last_push_head(d) ==
    IF d.is_drawing /\ d.current_stroke.id # NULL
    THEN [d EXCEPT !.current_stroke = NoStroke, !.is_drawing = FALSE]
    ELSE IF d.strokes = <<>> THEN d
    ELSE [d EXCEPT !.strokes = Front(d.strokes),
                   !.redo_stack = <<Last(d.strokes)>> \o d.redo_stack]

\* drawing_undo_last without the early return for a stroke in progress.
drawing_undo_last_no_return(d) ==
    LET d1 == IF d.is_drawing /\ d.current_stroke.id # NULL
              THEN [d EXCEPT !.current_stroke = NoStroke, !.is_drawing = FALSE]
              ELSE d
    IN  IF d1.strokes = <<>> THEN d1
        ELSE [d1 EXCEPT !.strokes = Front(d1.strokes),
                        !.redo_stack = Append(d1.redo_stack, Last(d1.strokes))]

drawing_undo_last(d) ==
    IF d.is_drawing /\ d.current_stroke.id # NULL
    \* the stroke in progress is destroyed, nothing else changes
    THEN [d EXCEPT !.current_stroke = NoStroke, !.is_drawing = FALSE]
    ELSE IF d.strokes = <<>> THEN d
    \* strokes.prev (the tail) is unlinked and inserted at redo_stack.prev (its tail)
    ELSE [d EXCEPT !.strokes = Front(d.strokes),
                   !.redo_stack = Append(d.redo_stack, Last(d.strokes))]

drawing_redo_last(d) ==
    IF d.redo_stack = <<>> THEN d
    ELSE [d EXCEPT !.redo_stack = Front(d.redo_stack),
                   !.strokes = Append(d.strokes, Last(d.redo_stack))]

\* `id` is the stroke drawing_stroke_create returns.
drawing_stroke_begin(d, id, canvas_x, canvas_y) ==
    IF ~d.drawing_mode THEN d
    ELSE [d EXCEPT
            !.current_stroke = Stroke(id, << <<canvas_x, canvas_y>> >>, d.current_color),
            !.is_drawing = TRUE,
            !.last_canvas_x = canvas_x,
            !.last_canvas_y = canvas_y]

\* A distance filter that also drops a point at exactly the minimum distance.
TooCloseInclusive(dx, dy) ==
    RLe(RAdd(RMul(dx, dx), RMul(dy, dy)),
        R(MIN_POINT_DISTANCE * MIN_POINT_DISTANCE))

\* sqrt(dx * dx + dy * dy) < MIN_POINT_DISTANCE, compared on the squares.
TooClose(dx, dy) ==
    RLt(RAdd(RMul(dx, dx), RMul(dy, dy)),
        R(MIN_POINT_DISTANCE * MIN_POINT_DISTANCE))

drawing_stroke_add_point(d, canvas_x, canvas_y) ==
    IF ~d.is_drawing \/ d.current_stroke.id = NULL THEN d
    ELSE LET dx == RSub(canvas_x, d.last_canvas_x)
             dy == RSub(canvas_y, d.last_canvas_y)
         IN  IF TooClose(dx, dy) THEN d
             ELSE [d EXCEPT
                     !.current_stroke.points = Append(@, <<canvas_x, canvas_y>>),
                     !.last_canvas_x = canvas_x,
                     !.last_canvas_y = canvas_y]

UI_BUTTON_NONE == "UI_BUTTON_NONE"
UiButtons ==
    { UI_BUTTON_NONE, "UI_BUTTON_COLOR_RED", "UI_BUTTON_COLOR_GREEN",
      "UI_BUTTON_COLOR_BLUE", "UI_BUTTON_UNDO", "UI_BUTTON_REDO", "UI_BUTTON_CLEAR" }

drawing_ui_handle_click(d, button) ==
    CASE button = "UI_BUTTON_COLOR_RED"   -> [d EXCEPT !.current_color = COLOR_RED]
      [] button = "UI_BUTTON_COLOR_GREEN" -> [d EXCEPT !.current_color = COLOR_GREEN]
      [] button = "UI_BUTTON_COLOR_BLUE"  -> [d EXCEPT !.current_color = COLOR_BLUE]
      [] button = "UI_BUTTON_UNDO"        -> drawing_undo_last(d)
      [] button = "UI_BUTTON_REDO"        -> drawing_redo_last(d)
      [] button = "UI_BUTTON_CLEAR"       -> drawing_clear_all(d)
      [] OTHER                            -> d

\* UI layout constants (drawing_ui.c), logical pixels.
UI_PANEL_X == 20
UI_BUTTON_WIDTH == 50
UI_BUTTON_HEIGHT == 50
UI_BUTTON_SPACING == 10
UI_PANEL_PADDING == 10
UI_SEPARATOR_HEIGHT == 20

\* The panel's box.  C's int division truncates; the screens modelled are
\* taller than the panel, where that is \div.
drawing_ui_init(screen_width, screen_height) ==
    LET height == UI_PANEL_PADDING * 2 + UI_BUTTON_HEIGHT * 6
                  + UI_BUTTON_SPACING * 5 + UI_SEPARATOR_HEIGHT
    IN  [x |-> UI_PANEL_X,
         y |-> (screen_height - height) \div 2,
         width |-> UI_BUTTON_WIDTH + 2 * UI_PANEL_PADDING,
         height |-> height]

get_button_y(panel, button_index) ==
    IF button_index < 3
    THEN panel.y + UI_PANEL_PADDING
         + button_index * (UI_BUTTON_HEIGHT + UI_BUTTON_SPACING)
    ELSE panel.y + UI_PANEL_PADDING
         + 3 * (UI_BUTTON_HEIGHT + UI_BUTTON_SPACING)
         + UI_SEPARATOR_HEIGHT
         + (button_index - 3) * (UI_BUTTON_HEIGHT + UI_BUTTON_SPACING)

ButtonOfIndex(i) ==
    CASE i = 0 -> "UI_BUTTON_COLOR_RED"
      [] i = 1 -> "UI_BUTTON_COLOR_GREEN"
      [] i = 2 -> "UI_BUTTON_COLOR_BLUE"
      [] i = 3 -> "UI_BUTTON_UNDO"
      [] i = 4 -> "UI_BUTTON_REDO"
      [] i = 5 -> "UI_BUTTON_CLEAR"

\* The first test of drawing_ui_get_button_at: the point is in the panel's box.
InPanelBounds(panel, x, y) ==
    ~(x < panel.x \/ x >= panel.x + panel.width
      \/ y < panel.y \/ y >= panel.y + panel.height)

\* x and y are whole pixels, so the (int) casts keep them.
drawing_ui_get_button_at(panel, x, y) ==
    LET relative_x == x - (panel.x + UI_PANEL_PADDING)
        on == { i \in 0..5 : y >= get_button_y(panel, i)
                             /\ y < get_button_y(panel, i) + UI_BUTTON_HEIGHT }
    IN  IF ~InPanelBounds(panel, x, y) THEN UI_BUTTON_NONE
        ELSE IF relative_x < 0 \/ relative_x >= UI_BUTTON_WIDTH THEN UI_BUTTON_NONE
        ELSE IF on = {} THEN UI_BUTTON_NONE
        ELSE ButtonOfIndex(CHOOSE i \in on : \A j \in on : i <= j)

(***************************************************************************)
(* Views (view.c).  A view record carries the handle `id` of the heap      *)
(* object and the fields the handlers below read or write; `mapped` is the  *)
(* wlr_surface's mapped flag.                                               *)
(***************************************************************************)
INFINIDESK_CURSOR_PASSTHROUGH == "PASSTHROUGH"
INFINIDESK_CURSOR_MOVE        == "MOVE"
INFINIDESK_CURSOR_PAN         == "PAN"
INFINIDESK_CURSOR_RESIZE      == "RESIZE"
INFINIDESK_CURSOR_DRAW        == "DRAW"

BTN_LEFT  == "BTN_LEFT"
BTN_RIGHT == "BTN_RIGHT"

\* The window geometry a client commits unless a layout says otherwise, and
\* the primary output's usable area.  view.geo is the box that
\* wlr_xdg_surface_get_geometry reports for the view's toplevel.
Geometry == [x |-> 0, y |-> 0, width |-> 200, height |-> 100]
Usable   == [x |-> 0, y |-> 0, width |-> 800, height |-> 600]

\* server->drawing.ui_panel, as output_handle_frame sets it up on the first
\* frame from the output's effective resolution.
ui_panel == drawing_ui_init(Usable.width, Usable.height)

\* The listeners a component links into the signals of a protocol object,
\* each one <<object, id, signal>>; the objects that exist once are id 0.
ViewSignals ==
    { "map", "unmap", "destroy", "commit", "request_move", "request_resize",
      "request_maximize", "request_fullscreen", "set_title", "set_app_id" }
OutputSignals == { "frame", "request_state", "destroy" }
KeyboardSignals == { "key", "modifiers", "destroy" }
LayerSignals == { "map", "unmap", "destroy", "commit", "new_popup" }

Listeners(object, id, signals) == { <<object, id, s>> : s \in signals }

\* What output_init, input_init, cursor_init, xdg_shell_init and
\* layer_shell_init register on the backend, the cursor, the seat and the
\* shell globals when the server starts.
ServerListeners ==
    Listeners("backend", 0, {"new_output", "new_input"})
      \cup Listeners("cursor", 0, {"motion", "motion_absolute", "button", "axis", "frame"})
      \cup Listeners("seat", 0, {"request_set_cursor"})
      \cup Listeners("xdg_shell", 0, {"new_toplevel", "new_popup"})
      \cup Listeners("xdg_decoration_manager", 0, {"new_toplevel_decoration"})
      \cup Listeners("layer_shell", 0, {"new_surface"})

\* wl_signal_add of every listener of ls.
\* The listeners of the views of a list, as view_create registered them.
ViewListeners(vs) ==
    UNION { Listeners("view", vs[i].id, ViewSignals) : i \in DOMAIN vs }

add_listeners(w, ls) == [w EXCEPT !.server.listeners = @ \cup ls]

\* wl_list_remove of every link of ls.  Removing a link that is not in a list
\* (never added, or removed before) follows the NULL pointers that the first
\* removal left in it.
remove_listeners(w, ls) ==
    IF ls \subseteq w.server.listeners
    THEN [w EXCEPT !.server.listeners = @ \ ls]
    ELSE [w EXCEPT !.server.listeners = @ \ ls, !.fault = TRUE]

server_init ==
    [ cursor_mode     |-> INFINIDESK_CURSOR_PASSTHROUGH,
      grabbed_view    |-> NULL,
      grab_x          |-> R(0),
      grab_y          |-> R(0),
      super_pressed   |-> FALSE,
      scroll_panning  |-> FALSE,
      cursor_x        |-> R(0),
      cursor_y        |-> R(0),
      focused_surface |-> NULL,
      next_view_id    |-> 0,
      scroll_pan_timer  |-> NULL,
      scroll_pan_expiry |-> 0,
      output_scale    |-> R(1),
      keybinds        |-> <<>>,
      listeners       |-> ServerListeners,
      outputs         |-> <<>>,
      keyboards       |-> {},
      seat_keyboard   |-> NULL,
      held            |-> {},
      press_forwarded |-> {},
      layers          |-> <<>>,
      destroyed       |-> {} ]

\* The server once the backend has started and announced a keyboard
\* (handle_new_input, keyboard_create): the state in which the clients of a
\* machine with a keyboard connect.
server_started ==
    [server_init EXCEPT !.keyboards = {1},
                        !.seat_keyboard = 1,
                        !.listeners = @ \cup Listeners("keyboard", 1, KeyboardSignals)]

\* The overlay's cached texture is NULL or the handle of the one wlr_texture
\* the switcher owns at a time.
TEXTURE == 1

switcher_init == [active |-> FALSE, selected |-> NULL, texture |-> NULL, dirty |-> FALSE]

\* The state the handlers work on, as one record.
World ==
    [ server |-> server, views |-> views, switcher |-> switcher,
      canvas |-> canvas, drawing |-> drawing, fault |-> fault ]

ViewIds(vs) == { vs[i].id : i \in DOMAIN vs }

ViewOf(vs, id) == vs[CHOOSE i \in DOMAIN vs : vs[i].id = id]

MappedIds(vs) == { vs[i].id : i \in { j \in DOMAIN vs : vs[j].mapped } }

Without(vs, id) == SelectSeq(vs, LAMBDA v : v.id # id)

SetView(vs, id, view) == [i \in DOMAIN vs |-> IF vs[i].id = id THEN view ELSE vs[i]]

\* calloc, then the fields view_create sets; the handle is the allocation
\* number, counted from 1 so that no handle is NULL.
view_create(w) ==
    LET view == [ id |-> w.server.next_view_id + 1,
                  mapped |-> FALSE, is_moving |-> FALSE, focused |-> FALSE,
                  x |-> R(0), y |-> R(0),
                  grab_x |-> R(0), grab_y |-> R(0),
                  grab_view_x |-> R(0), grab_view_y |-> R(0),
                  focus_animation |-> R(0), focus_anim_start_ms |-> 0,
                  focus_anim_active |-> FALSE,
                  map_animation |-> R(0), map_anim_start_ms |-> 0,
                  is_animating_out |-> FALSE,
                  geo |-> Geometry ]
    IN  add_listeners([w EXCEPT !.server.next_view_id = @ + 1,
                                !.views = <<view>> \o @],
                      Listeners("view", view.id, ViewSignals))

\* Unlinks and frees the view.  Freeing the wlr_surface makes the seat drop
\* its keyboard focus on it; nothing else that refers to the view is touched.
view_destroy(w, id) ==
    remove_listeners([w EXCEPT !.views = Without(@, id),
                               !.server.focused_surface = IF @ = id THEN NULL ELSE @],
                     Listeners("view", id, ViewSignals))

view_focus(w, id) ==
    IF id = NULL \/ w.server.focused_surface = id THEN w
    ELSE LET prev == w.server.focused_surface
         IN  [w EXCEPT
                !.views = [i \in DOMAIN @ |->
                             IF @[i].id = id THEN [@[i] EXCEPT !.focused = TRUE]
                             ELSE IF @[i].id = prev THEN [@[i] EXCEPT !.focused = FALSE]
                             ELSE @[i]],
                !.server.focused_surface =
                    IF w.server.seat_keyboard # NULL THEN id ELSE @]

\* The animation stamps of view_focus, on top of w2, the state it leaves; w is
\* the state it was called in and time_ms what get_time_ms returns: when the
\* focus changes, the view and the view of the previously focused surface
\* start their focus animation.
focus_anim_start(w, w2, id, time_ms) ==
    IF id = NULL \/ w.server.focused_surface = id THEN w2
    ELSE [w2 EXCEPT !.views =
            [i \in DOMAIN @ |->
                IF @[i].id \in {id, w.server.focused_surface}
                THEN [@[i] EXCEPT !.focus_anim_start_ms = time_ms,
                                  !.focus_anim_active = TRUE]
                ELSE @[i]]]

\* view_focus with its animation stamps.
view_focus_at(w, id, time_ms) == focus_anim_start(w, view_focus(w, id), id, time_ms)

\* A raise that links the view in at the tail of the list.
view_raise_to_tail(w, id) ==
    IF id = NULL THEN w
    ELSE [w EXCEPT !.views = Without(@, id) \o <<ViewOf(@, id)>>]

view_raise(w, id) ==
    IF id = NULL THEN w
    ELSE [w EXCEPT !.views = <<ViewOf(@, id)>> \o Without(@, id)]

view_move_begin(w, id, cursor_x, cursor_y) ==
    LET view == ViewOf(w.views, id)
    IN  [w EXCEPT !.views = SetView(@, id,
            [view EXCEPT !.is_moving = TRUE,
                         !.grab_x = cursor_x, !.grab_y = cursor_y,
                         !.grab_view_x = view.x, !.grab_view_y = view.y])]

view_move_update(w, id, cursor_x, cursor_y) ==
    LET view == ViewOf(w.views, id)
    IN  IF ~view.is_moving THEN w
        ELSE [w EXCEPT !.views = SetView(@, id,
                [view EXCEPT !.x = RAdd(view.grab_view_x, RSub(cursor_x, view.grab_x)),
                             !.y = RAdd(view.grab_view_y, RSub(cursor_y, view.grab_y))])]

view_move_end(w, id) ==
    [w EXCEPT !.views = SetView(@, id, [ViewOf(@, id) EXCEPT !.is_moving = FALSE])]

\* Starts the viewport animation that centres the view, then focuses and
\* raises it.
view_snap(w, id, time_ms) ==
    LET view == ViewOf(w.views, id)
        view_center_x == RAdd(view.x, RDiv(R(view.geo.width), R(2)))
        view_center_y == RAdd(view.y, RDiv(R(view.geo.height), R(2)))
        target_x == RSub(view_center_x,
                         RDiv(RDiv(R(Usable.width), R(2)), w.canvas.scale))
        target_y == RSub(view_center_y,
                         RDiv(RDiv(R(Usable.height), R(2)), w.canvas.scale))
        w1 == [w EXCEPT !.canvas = canvas_snap_begin(@, target_x, target_y, time_ms)]
    IN  view_raise(view_focus(w1, id), id)

\* sqrt, exact on the rationals that are squares of rationals; on any other
\* argument the root is irrational and this is only its integer-wise floor,
\* so views_gather is applied only where ExactDistances holds.
RECURSIVE ISqrtIn(_, _, _)
ISqrtIn(n, lo, hi) ==
    IF hi - lo <= 1 THEN lo
    ELSE LET mid == (lo + hi) \div 2
         IN  IF mid * mid <= n THEN ISqrtIn(n, mid, hi) ELSE ISqrtIn(n, lo, mid)

ISqrt(n) == ISqrtIn(n, 0, IF n < 46340 THEN n + 1 ELSE 46341)

IsSquare(q) == ISqrt(q[1]) * ISqrt(q[1]) = q[1] /\ ISqrt(q[2]) * ISqrt(q[2]) = q[2]

sqrt(q) == <<ISqrt(q[1]), ISqrt(q[2])>>

\* +infinity: greater than every rational under RLt, and absorbing under RAdd.
INFINITY == <<1, 0>>

fmin(a, b) == IF RLt(b, a) THEN b ELSE a

GATHER_EPSILON == <<1, 1000>>

\* view->x + geo.width / 2.0, view->y + geo.height / 2.0
view_center(view) ==
    <<RAdd(view.x, RDiv(R(view.geo.width), R(2))),
      RAdd(view.y, RDiv(R(view.geo.height), R(2)))>>

\* The centres of the listed views, summed in list order and divided by
\* their number.
centroid(vs) ==
    LET sum[i \in 0..Len(vs)] ==
            IF i = 0 THEN <<R(0), R(0)>>
            ELSE <<RAdd(sum[i - 1][1], view_center(vs[i])[1]),
                   RAdd(sum[i - 1][2], view_center(vs[i])[2])>>
    IN  <<RDiv(sum[Len(vs)][1], R(Len(vs))), RDiv(sum[Len(vs)][2], R(Len(vs)))>>

\* The vector from the centroid c to the view's centre.
vec(view, c) ==
    <<RSub(view_center(view)[1], c[1]), RSub(view_center(view)[2], c[2])>>

current_distance(vec_x, vec_y) ==
    sqrt(RAdd(RMul(vec_x, vec_x), RMul(vec_y, vec_y)))

\* Every view's distance from the centroid is rational.
ExactDistances(vs) ==
    LET c == centroid(vs)
    IN  \A i \in DOMAIN vs :
            LET v == vec(vs[i], c)
            IN  IsSquare(RAdd(RMul(v[1], v[1]), RMul(v[2], v[2])))

\* t_x and t_y: how far along the direction the edge of the box is.
edge_t(half, dir) ==
    IF RLt(GATHER_EPSILON, RAbs(dir)) THEN RDiv(half, RAbs(dir)) ELSE INFINITY

\* The distance from the view's centre to the edge of its box along the
\* direction of the vector, plus the gap; 0 for a view at the centroid.
min_distance(geo, vec_x, vec_y, dist, minimum_gap) ==
    IF RLt(dist, GATHER_EPSILON) THEN R(0)
    ELSE RAdd(fmin(edge_t(RDiv(R(geo.width), R(2)), RDiv(vec_x, dist)),
                   edge_t(RDiv(R(geo.height), R(2)), RDiv(vec_y, dist))),
              minimum_gap)

\* A gather that puts every view at its minimum distance.
new_distance_at_minimum(dist, min_dist) == min_dist

\* A gather that halves every distance and never clamps.
new_distance_unclamped(dist, min_dist) == RMul(dist, <<1, 2>>)

\* Half the current distance (scale_factor 0.5), clamped from below.
new_distance(dist, min_dist) ==
    LET scale_factor == <<1, 2>>
    IN  IF RLt(RMul(dist, scale_factor), min_dist) THEN min_dist
        ELSE RMul(dist, scale_factor)

effective_scale(dist, new_dist) ==
    IF RLt(GATHER_EPSILON, dist) THEN RDiv(new_dist, dist) ELSE R(1)

\* The view with its centre at centroid + vec * scale.
view_at_scaled(view, c, vec_x, vec_y, scale) ==
    [view EXCEPT
        !.x = RSub(RAdd(c[1], RMul(vec_x, scale)), RDiv(R(view.geo.width), R(2))),
        !.y = RSub(RAdd(c[2], RMul(vec_y, scale)), RDiv(R(view.geo.height), R(2)))]

gather_along(view, c, vec_x, vec_y, dist, minimum_gap) ==
    view_at_scaled(view, c, vec_x, vec_y,
        effective_scale(dist,
            new_distance(dist, min_distance(view.geo, vec_x, vec_y, dist, minimum_gap))))

\* The body of the second loop: the view's centre is moved along its vector
\* from the centroid c of the layout before the gather.
gather_view(view, c, minimum_gap) ==
    gather_along(view, c, vec(view, c)[1], vec(view, c)[2],
                 current_distance(vec(view, c)[1], vec(view, c)[2]), minimum_gap)

\* The end of views_gather: the snap to the centroid of the gathered views.
gather_snap(w, gathered, new_centroid, time_ms) ==
    [w EXCEPT !.views = gathered,
              !.canvas = canvas_snap_begin(@,
                  RSub(new_centroid[1], RDiv(RDiv(R(Usable.width), R(2)), w.canvas.scale)),
                  RSub(new_centroid[2], RDiv(RDiv(R(Usable.height), R(2)), w.canvas.scale)),
                  time_ms)]

gather_all(w, c, minimum_gap) ==
    [i \in DOMAIN w.views |-> gather_view(w.views[i], c, minimum_gap)]

gather_recentre(w, gathered, time_ms) ==
    gather_snap(w, gathered, centroid(gathered), time_ms)

\* Pulls every listed view towards the centroid of the view centres, then
\* starts the viewport animation that centres the new centroid.  The primary
\* output exists; get_time_ms() is the argument time_ms.
views_gather(w, minimum_gap, time_ms) ==
    IF w.views = <<>> THEN w
    ELSE gather_recentre(w, gather_all(w, centroid(w.views), minimum_gap), time_ms)

\* get_time_ms() is the argument time_ms.
handle_map(w, id, time_ms) ==
    LET view == ViewOf(w.views, id)
        centre == screen_to_canvas(w.canvas,
                      RAdd(R(Usable.x), RDiv(R(Usable.width), R(2))),
                      RAdd(R(Usable.y), RDiv(R(Usable.height), R(2))))
        w1 == [w EXCEPT !.views = SetView(@, id,
                  [ViewOf(@, id) EXCEPT
                      !.mapped = TRUE,
                      !.x = RSub(centre[1], RDiv(R(view.geo.width), R(2))),
                      !.y = RSub(centre[2], RDiv(R(view.geo.height), R(2))),
                      !.map_animation = R(0),
                      !.map_anim_start_ms = time_ms,
                      !.is_animating_out = FALSE])]
    IN  view_raise(view_focus(w1, id), id)

\* handle_map with the animation stamps of its view_focus.
handle_map_at(w, id, time_ms) ==
    focus_anim_start(w, handle_map(w, id, time_ms), id, time_ms)

\* An unmap that returns to passthrough but keeps pointing at the view.
handle_unmap_keep_grab(w, id) ==
    LET w1 == IF ViewOf(w.views, id).is_moving THEN view_move_end(w, id) ELSE w
        w2 == IF w1.server.grabbed_view = id
              THEN [w1 EXCEPT !.server.cursor_mode = INFINIDESK_CURSOR_PASSTHROUGH]
              ELSE w1
    IN  [w2 EXCEPT !.views = SetView(@, id,
            [ViewOf(@, id) EXCEPT !.mapped = FALSE,
                                  !.map_animation = R(0),
                                  !.is_animating_out = FALSE])]

\* An unmap that leaves the entrance animation where it was.
handle_unmap_keep_animation(w, id) ==
    LET w1 == IF ViewOf(w.views, id).is_moving THEN view_move_end(w, id) ELSE w
        w2 == IF w1.server.grabbed_view = id
              THEN [w1 EXCEPT !.server.grabbed_view = NULL,
                              !.server.cursor_mode = INFINIDESK_CURSOR_PASSTHROUGH]
              ELSE w1
    IN  [w2 EXCEPT !.views = SetView(@, id, [ViewOf(@, id) EXCEPT !.mapped = FALSE])]

handle_unmap(w, id) ==
    LET w1 == IF ViewOf(w.views, id).is_moving THEN view_move_end(w, id) ELSE w
        w2 == IF w1.server.grabbed_view = id
              THEN [w1 EXCEPT !.server.grabbed_view = NULL,
                              !.server.cursor_mode = INFINIDESK_CURSOR_PASSTHROUGH]
              ELSE w1
    IN  [w2 EXCEPT !.views = SetView(@, id,
            [ViewOf(@, id) EXCEPT !.mapped = FALSE,
                                  !.map_animation = R(0),
                                  !.is_animating_out = FALSE])]

VIEW_MAP_ANIM_DURATION_MS == 200
VIEW_FOCUS_ANIM_DURATION_MS == 200

\* A millisecond time is a uint32_t.  The model holds it as the integer of
\* the same 32 bits read as two's complement, so that the times just before
\* the clock wraps are the negative ones just below 0.

\* A difference taken without the wrap of uint32_t.
signed_sub(time_ms, start_ms) == time_ms - start_ms

\* uint32_t elapsed = time_ms - start_ms: the difference modulo 2^32.  Where
\* the difference of the representatives is negative the result is 2^32 more,
\* at least 2^31 for the times of the model and past every duration; it is
\* held as 2^31 - 1.
u32_sub(time_ms, start_ms) ==
    IF time_ms - start_ms >= 0 THEN time_ms - start_ms ELSE 2147483647

ease_out_cubic(t) ==
    LET t1 == RSub(R(1), t)
    IN  RSub(R(1), RMul(RMul(t1, t1), t1))

\* The entrance-animation half of view_update_focus_animations, run on every
\* view of the list, mapped or not.
view_update_map_animation(view, time_ms) ==
    IF RLt(view.map_animation, R(1)) /\ ~view.is_animating_out
    THEN LET elapsed == u32_sub(time_ms, view.map_anim_start_ms)
             progress == RDiv(R(elapsed), R(VIEW_MAP_ANIM_DURATION_MS))
         IN  IF RLe(R(1), progress) THEN [view EXCEPT !.map_animation = R(1)]
             ELSE [view EXCEPT !.map_animation = ease_out_cubic(progress)]
    ELSE view

\* The focus-animation half of view_update_focus_animations.
view_update_focus_animation(view, time_ms) ==
    IF view.focus_anim_active
    THEN LET elapsed == u32_sub(time_ms, view.focus_anim_start_ms)
             progress == RDiv(R(elapsed), R(VIEW_FOCUS_ANIM_DURATION_MS))
         IN  IF RLe(R(1), progress)
             THEN [view EXCEPT !.focus_animation = IF view.focused THEN R(1) ELSE R(0),
                               !.focus_anim_active = FALSE]
             ELSE [view EXCEPT !.focus_animation =
                      IF view.focused THEN ease_out_cubic(progress)
                      ELSE RSub(R(1), ease_out_cubic(progress))]
    ELSE view

view_update_focus_animations(w, time_ms) ==
    [w EXCEPT !.views =
        [i \in DOMAIN @ |->
            view_update_map_animation(view_update_focus_animation(@[i], time_ms),
                                      time_ms)]]

\* wlroots unmaps a mapped surface before it emits the toplevel's destroy
\* signal, so handle_unmap runs before handle_destroy.
handle_destroy(w, id) ==
    view_destroy(IF ViewOf(w.views, id).mapped THEN handle_unmap(w, id) ELSE w, id)

(***************************************************************************)
(* The cursor handlers (cursor.c).  server_view_at and                     *)
(* drawing_ui_get_button_at are geometric tests on the cursor position;     *)
(* their results are inputs of the handlers here: `hit` is a mapped view or *)
(* NULL, `ui` a panel button or UI_BUTTON_NONE.                             *)
(***************************************************************************)
Freed(w, id) == id # NULL /\ id \notin ViewIds(w.views)

Crash(w) == [w EXCEPT !.fault = TRUE]

CursorOnCanvas(w) ==
    screen_to_canvas(w.canvas, w.server.cursor_x, w.server.cursor_y)

\* A reset that leaves the grab in place.
cursor_reset_mode_keep_grab(w) ==
    [w EXCEPT !.server.cursor_mode = INFINIDESK_CURSOR_PASSTHROUGH]

cursor_reset_mode(w) ==
    [w EXCEPT !.server.cursor_mode = INFINIDESK_CURSOR_PASSTHROUGH,
              !.server.grabbed_view = NULL]

\* The branch of cursor_handle_button a press takes: the mode it sets, the
\* panel button it clicks, or "click" for the regular click.
PressBranch(w, button, hit, ui) ==
    IF w.drawing.drawing_mode /\ ui # UI_BUTTON_NONE /\ button = BTN_LEFT THEN ui
    ELSE IF w.drawing.drawing_mode /\ button = BTN_LEFT THEN INFINIDESK_CURSOR_DRAW
    ELSE IF w.server.super_pressed /\ button = BTN_LEFT /\ hit # NULL
    THEN INFINIDESK_CURSOR_MOVE
    ELSE IF w.server.super_pressed /\ button = BTN_RIGHT THEN INFINIDESK_CURSOR_PAN
    ELSE "click"

\* cursor_handle_button, state == WL_POINTER_BUTTON_STATE_PRESSED.
cursor_handle_button_pressed(w, button, hit, ui, stroke_id) ==
    LET at == CursorOnCanvas(w)
    IN  IF w.drawing.drawing_mode /\ ui # UI_BUTTON_NONE /\ button = BTN_LEFT
        THEN [w EXCEPT !.drawing = drawing_ui_handle_click(@, ui)]
        ELSE IF w.drawing.drawing_mode /\ button = BTN_LEFT
        THEN [w EXCEPT !.server.cursor_mode = INFINIDESK_CURSOR_DRAW,
                       !.drawing = drawing_stroke_begin(@, stroke_id, at[1], at[2])]
        ELSE IF w.server.super_pressed /\ button = BTN_LEFT /\ hit # NULL
        THEN LET w1 == [w EXCEPT !.server.cursor_mode = INFINIDESK_CURSOR_MOVE,
                                 !.server.grabbed_view = hit,
                                 !.server.grab_x = w.server.cursor_x,
                                 !.server.grab_y = w.server.cursor_y]
             IN  view_raise(view_focus(view_move_begin(w1, hit, at[1], at[2]), hit), hit)
        ELSE IF w.server.super_pressed /\ button = BTN_RIGHT
        THEN [w EXCEPT !.server.cursor_mode = INFINIDESK_CURSOR_PAN,
                       !.canvas = canvas_pan_begin(@, w.server.cursor_x,
                                                   w.server.cursor_y)]
        ELSE view_raise(view_focus(w, hit), hit)

\* cursor_handle_button, state == WL_POINTER_BUTTON_STATE_RELEASED.
cursor_handle_button_released(w) ==
    CASE w.server.cursor_mode = INFINIDESK_CURSOR_MOVE ->
            IF w.server.grabbed_view = NULL THEN cursor_reset_mode(w)
            ELSE IF Freed(w, w.server.grabbed_view) THEN Crash(w)
            ELSE cursor_reset_mode(view_move_end(w, w.server.grabbed_view))
      [] w.server.cursor_mode = INFINIDESK_CURSOR_PAN ->
            cursor_reset_mode([w EXCEPT !.canvas = canvas_pan_end(@)])
      [] w.server.cursor_mode = INFINIDESK_CURSOR_DRAW ->
            cursor_reset_mode([w EXCEPT !.drawing = drawing_stroke_end(@)])
      [] OTHER -> w

\* A motion handler that drops the pan when the cursor moves.
cursor_process_motion_ends_pan(w, hit, edges) ==
    IF w.server.cursor_mode = INFINIDESK_CURSOR_PAN
    THEN cursor_reset_mode([w EXCEPT !.canvas = canvas_pan_end(@)])
    ELSE w

\* A motion handler that focuses the view under the cursor during a scroll-pan
\* as well.
cursor_process_motion_always_focus(w, hit, edges) ==
    IF w.server.cursor_mode = INFINIDESK_CURSOR_PASSTHROUGH /\ ~edges /\ hit # NULL
    THEN view_focus(w, hit) ELSE w

\* Runs after the cursor has moved.  hit is the view server_view_at finds
\* under the cursor; edges says that server_view_edge_at found the cursor on
\* a view's resize edge.  In passthrough mode a cursor on a resize edge or on
\* no surface leaves the keyboard focus alone.
cursor_process_motion(w, hit, edges) ==
    LET at == CursorOnCanvas(w)
    IN  CASE w.server.cursor_mode = INFINIDESK_CURSOR_MOVE ->
                IF w.server.grabbed_view = NULL THEN w
                ELSE IF Freed(w, w.server.grabbed_view) THEN Crash(w)
                ELSE view_move_update(w, w.server.grabbed_view, at[1], at[2])
          [] w.server.cursor_mode = INFINIDESK_CURSOR_PAN ->
                [w EXCEPT !.canvas = canvas_pan_update(@, w.server.cursor_x,
                                                       w.server.cursor_y)]
          [] w.server.cursor_mode = INFINIDESK_CURSOR_DRAW ->
                [w EXCEPT !.drawing = drawing_stroke_add_point(@, at[1], at[2])]
          [] w.server.cursor_mode = INFINIDESK_CURSOR_RESIZE -> w
          [] OTHER ->
                IF edges THEN w
                ELSE IF hit # NULL /\ ~w.server.scroll_panning
                THEN view_focus(w, hit) ELSE w

(***************************************************************************)
(* The scroll axis and the scroll-pan idle timer (cursor.c).  The timer's  *)
(* state inside libwayland is server.scroll_pan_expiry: the time at which  *)
(* it fires, 0 while it is not armed.                                      *)
(***************************************************************************)
ZOOM_SCROLL_FACTOR == <<103, 100>>
SCROLL_PAN_TIMEOUT_MS == 100
EVENT_SOURCE == 1

WL_POINTER_AXIS_VERTICAL_SCROLL   == "VERTICAL_SCROLL"
WL_POINTER_AXIS_HORIZONTAL_SCROLL == "HORIZONTAL_SCROLL"

scroll_pan_timer_callback(w) ==
    [w EXCEPT !.server.scroll_panning = FALSE, !.server.scroll_pan_expiry = 0]

wl_event_source_timer_update(w, ms_delay, time_ms) ==
    [w EXCEPT !.server.scroll_pan_expiry = time_ms + ms_delay]

\* canvas_pan_delta(0, delta) for a vertical event, (delta, 0) otherwise.
AxisPan(c, orientation, delta) ==
    IF orientation = WL_POINTER_AXIS_VERTICAL_SCROLL
    THEN canvas_pan_delta(c, R(0), delta)
    ELSE canvas_pan_delta(c, delta, R(0))

\* Which branch of cursor_handle_axis the event takes; "forward" is the one
\* that calls wlr_seat_pointer_notify_axis.  hit is server_view_at's view.
AxisBranch(w, orientation, hit) ==
    IF w.server.super_pressed
    THEN IF orientation = WL_POINTER_AXIS_VERTICAL_SCROLL THEN "zoom" ELSE "ignored"
    ELSE IF w.server.scroll_panning THEN "continue"
    ELSE IF hit # NULL THEN "forward"
    ELSE "start"

\* A handler that re-arms the timer on a zoom as well.
cursor_handle_axis_rearm_always(w, orientation, delta, hit, time_ms) ==
    LET branch == AxisBranch(w, orientation, hit)
        w1 == IF w.server.scroll_pan_timer # NULL
              THEN wl_event_source_timer_update(w, SCROLL_PAN_TIMEOUT_MS, time_ms)
              ELSE w
    IN  CASE branch = "zoom" ->
                [w1 EXCEPT !.canvas = canvas_zoom(@,
                    IF RLt(delta, R(0)) THEN ZOOM_SCROLL_FACTOR
                    ELSE RDiv(R(1), ZOOM_SCROLL_FACTOR),
                    w.server.cursor_x, w.server.cursor_y)]
          [] branch = "ignored" -> w1
          [] branch = "continue" -> [w1 EXCEPT !.canvas = AxisPan(@, orientation, delta)]
          [] branch = "forward" -> w
          [] OTHER ->
                [wl_event_source_timer_update(w, SCROLL_PAN_TIMEOUT_MS, time_ms) EXCEPT
                    !.server.scroll_panning = TRUE,
                    !.server.scroll_pan_timer = EVENT_SOURCE,
                    !.canvas = AxisPan(@, orientation, delta)]

\* A handler that hit-tests before it looks at scroll_panning.
cursor_handle_axis_hit_first(w, orientation, delta, hit, time_ms) ==
    LET branch == AxisBranch(w, orientation, hit)
    IN  CASE branch = "zoom" ->
                [w EXCEPT !.canvas = canvas_zoom(@,
                    IF RLt(delta, R(0)) THEN ZOOM_SCROLL_FACTOR
                    ELSE RDiv(R(1), ZOOM_SCROLL_FACTOR),
                    w.server.cursor_x, w.server.cursor_y)]
          [] branch = "ignored" -> w
          [] branch = "forward" \/ (branch = "continue" /\ hit # NULL) -> w
          [] OTHER ->
                [wl_event_source_timer_update(w, SCROLL_PAN_TIMEOUT_MS, time_ms) EXCEPT
                    !.server.scroll_panning = TRUE,
                    !.server.scroll_pan_timer = EVENT_SOURCE,
                    !.canvas = AxisPan(@, orientation, delta)]

\* event->delta is the argument delta; wl_event_loop_add_timer succeeds.
cursor_handle_axis(w, orientation, delta, hit, time_ms) ==
    LET branch == AxisBranch(w, orientation, hit)
    IN  CASE branch = "zoom" ->
                [w EXCEPT !.canvas = canvas_zoom(@,
                    IF RLt(delta, R(0)) THEN ZOOM_SCROLL_FACTOR
                    ELSE RDiv(R(1), ZOOM_SCROLL_FACTOR),
                    w.server.cursor_x, w.server.cursor_y)]
          [] branch = "ignored" -> w
          [] branch = "continue" ->
                [(IF w.server.scroll_pan_timer # NULL
                  THEN wl_event_source_timer_update(w, SCROLL_PAN_TIMEOUT_MS, time_ms)
                  ELSE w) EXCEPT !.canvas = AxisPan(@, orientation, delta)]
          [] branch = "forward" -> w
          [] OTHER ->
                [wl_event_source_timer_update(w, SCROLL_PAN_TIMEOUT_MS, time_ms) EXCEPT
                    !.server.scroll_panning = TRUE,
                    !.server.scroll_pan_timer = EVENT_SOURCE,
                    !.canvas = AxisPan(@, orientation, delta)]

(***************************************************************************)
(* The switcher (switcher.c).  get_next_view and get_prev_view read        *)
(* current->link, so they are defined for a view in the list (or NULL).     *)
(***************************************************************************)
IndexOf(vs, id) == CHOOSE i \in DOMAIN vs : vs[i].id = id

get_next_view(vs, current) ==
    IF vs = <<>> THEN NULL
    ELSE IF current = NULL THEN vs[1].id
    ELSE IF IndexOf(vs, current) = Len(vs) THEN vs[1].id
    ELSE vs[IndexOf(vs, current) + 1].id

get_prev_view(vs, current) ==
    IF vs = <<>> THEN NULL
    ELSE IF current = NULL THEN vs[Len(vs)].id
    ELSE IF IndexOf(vs, current) = 1 THEN vs[Len(vs)].id
    ELSE vs[IndexOf(vs, current) - 1].id

\* A start that selects the head of the list, the view that has the focus.
switcher_start_selects_first(w) ==
    IF w.views = <<>> THEN w
    ELSE [w EXCEPT !.switcher.active = TRUE,
                   !.switcher.selected = w.views[1].id,
                   !.switcher.dirty = TRUE]

switcher_start(w) ==
    IF w.views = <<>> THEN w
    ELSE [w EXCEPT !.switcher.active = TRUE,
                   !.switcher.selected =
                       IF Len(w.views) = 1 THEN w.views[1].id
                       ELSE get_next_view(w.views, w.views[1].id),
                   !.switcher.dirty = TRUE]

\* A step forward that stops at the last view instead of wrapping.
switcher_next_no_wrap(w) ==
    IF ~w.switcher.active THEN w
    ELSE [w EXCEPT !.switcher.selected =
                       IF @ # NULL /\ IndexOf(w.views, @) = Len(w.views) THEN @
                       ELSE get_next_view(w.views, @),
                   !.switcher.dirty = TRUE]

switcher_next(w) ==
    IF ~w.switcher.active THEN w
    ELSE [w EXCEPT !.switcher.selected = get_next_view(w.views, @),
                   !.switcher.dirty = TRUE]

switcher_prev(w) ==
    IF ~w.switcher.active THEN w
    ELSE [w EXCEPT !.switcher.selected = get_prev_view(w.views, @),
                   !.switcher.dirty = TRUE]

\* A confirm that closes the overlay without going to the selected view.
switcher_confirm_stays(w, time_ms) ==
    IF ~w.switcher.active THEN w
    ELSE [w EXCEPT !.switcher.active = FALSE, !.switcher.selected = NULL,
                   !.switcher.texture = NULL]

switcher_confirm(w, time_ms) ==
    IF ~w.switcher.active THEN w
    ELSE LET w1 == IF w.switcher.selected # NULL
                   THEN view_snap(w, w.switcher.selected, time_ms) ELSE w
         IN  [w1 EXCEPT !.switcher.active = FALSE, !.switcher.selected = NULL,
                        !.switcher.texture = NULL]

switcher_cancel(w) ==
    [w EXCEPT !.switcher.active = FALSE, !.switcher.selected = NULL,
              !.switcher.texture = NULL]

\* render_texture: nothing to draw without views; otherwise the old texture
\* is destroyed and a new one made from the list as it is now.  A freed
\* `selected` is only compared with the listed views, never read.
render_texture(w) ==
    IF w.views = <<>> THEN w
    ELSE [w EXCEPT !.switcher.texture = TEXTURE, !.switcher.dirty = FALSE]

switcher_render(w) ==
    IF ~w.switcher.active THEN w
    ELSE IF w.switcher.dirty \/ w.switcher.texture = NULL THEN render_texture(w)
    ELSE w

\* What a read of current->link can give once `selected` points at a freed
\* view: a fault, or a pointer that is a live view or stays invalid.
StaleSelection(w) == Freed(w, w.switcher.selected) /\ w.views # <<>>

StaleStepOutcomes(w) ==
    {Crash(w)} \cup
    { [w EXCEPT !.switcher.selected = v, !.switcher.dirty = TRUE] :
          v \in ViewIds(w.views) \cup {w.switcher.selected} }

\* What view_snap on a freed view can give: a fault, or a snap towards
\* whatever position the freed memory holds.
StaleConfirmOutcomes(w, time_ms, targets) ==
    {Crash(w)} \cup
    { [w EXCEPT !.canvas = canvas_snap_begin(@, t[1], t[2], time_ms),
                !.switcher.active = FALSE, !.switcher.selected = NULL,
                !.switcher.texture = NULL] :
          t \in targets }

(***************************************************************************)
(* Bounds and input sets.                                                  *)
(***************************************************************************)
MaxCanvasOps == 4   \* canvas operations in one run of SpecCanvas
MaxStrokes   == 3   \* strokes allocated
MaxPoints    == 2   \* points per stroke
MaxEvents    == 7   \* events handled in one run of Spec
MaxViews     == 3   \* toplevels created
MaxFrames    == 6   \* frames in one run of SpecSnap
MaxSnaps     == 3   \* snaps started in one run of SpecSnap
MaxGatherViews == 2 \* windows in a layout of SpecGather
MaxGathers   == 2   \* gathers in one run of SpecGather
MaxScrollTicks == 4 \* clock steps in one run of SpecScroll
MaxScrollEvents == 4 \* input events in one run of SpecScroll

ClockStep == CANVAS_SNAP_DURATION_MS \div 2

Pt(x, y) == <<R(x), R(y)>>

\* cursor.c passes ZOOM_SCROLL_FACTOR or its inverse; the operation takes any
\* factor, so the model feeds factors that scale, that clamp at either end,
\* and a negative one.
ZoomFactors == { <<1, 2>>, <<2, 1>>, <<50, 1>>, <<-2, 1>> }
ScaleArgs   == { <<5, 1>>, <<1, 4>>, <<0, 1>> }
FocusPoints == { Pt(0, 0), Pt(400, 300) }
PanCursors  == { Pt(100, 100), Pt(150, 120) }
PanDeltas   == { Pt(0, 40), Pt(-40, 0) }
SnapTargets == { Pt(0, 0), Pt(200, 150) }
DrawPoints  == { Pt(0, 0), Pt(1, 0), Pt(3, 0) }
CursorPoints == { Pt(0, 0), Pt(3, 0) }

\* Where a press can find the cursor relative to the drawing panel, in screen
\* pixels: off the panel, on its padding, and on each of its six buttons.
OffPanel == <<0, 0>>
PanelProbes ==
    { OffPanel, <<25, 110>>,
      <<40, 120>>, <<40, 180>>, <<40, 240>>, <<40, 320>>, <<40, 380>>, <<40, 440>> }

StrokeIds(seq) == { seq[i].id : i \in DOMAIN seq }

drawVars == <<drawing, stroke_alloc, committed, redo_dropped>>

NoPress == <<"none", NULL>>

inputVars == <<server, views, switcher, pressed, fault, press_mode, live>>

(***************************************************************************)
(* Initial state: after server_init (canvas_init, drawing_init).           *)
(***************************************************************************)
Init ==
    /\ canvas = canvas_init
    /\ drawing = drawing_init
    /\ stroke_alloc = 0
    /\ now_ms = 0
    /\ steps = 0
    /\ lastOp = <<"init", "">>
    /\ committed = {}
    /\ redo_dropped = {}
    /\ server = server_started
    /\ views = <<>>
    /\ switcher = switcher_init
    /\ pressed = {}
    /\ fault = FALSE
    /\ press_mode = NoPress
    /\ live = {}

(***************************************************************************)
(* The canvas operations, each called with arbitrary arguments.            *)
(***************************************************************************)
CanvasOp(c2, op) ==
    /\ steps < MaxCanvasOps
    /\ steps' = steps + 1
    /\ canvas' = c2
    /\ lastOp' = op
    /\ UNCHANGED drawVars
    /\ UNCHANGED inputVars

ZoomBranch(c, factor) ==
    LET raw == RMul(c.scale, factor)
    IN  IF ClampScale(raw) = c.scale THEN "unchanged"
        ELSE IF ClampScale(raw) # raw THEN "clamped" ELSE "scaled"

CanvasZoom ==
    \E factor \in ZoomFactors, f \in FocusPoints :
        /\ CanvasOp(canvas_zoom(canvas, factor, f[1], f[2]),
                    <<"canvas_zoom", ZoomBranch(canvas, factor)>>)
        /\ UNCHANGED now_ms

CanvasSetScale ==
    \E s \in ScaleArgs :
        /\ CanvasOp(canvas_set_scale(canvas, s, R(400), R(300)),
                    <<"canvas_set_scale", ZoomBranch(canvas, RDiv(s, canvas.scale))>>)
        /\ UNCHANGED now_ms

CanvasPanBegin ==
    \E p \in PanCursors :
        /\ CanvasOp(canvas_pan_begin(canvas, p[1], p[2]), <<"canvas_pan_begin", "">>)
        /\ UNCHANGED now_ms

CanvasPanUpdate ==
    \E p \in PanCursors :
        /\ CanvasOp(canvas_pan_update(canvas, p[1], p[2]), <<"canvas_pan_update", "">>)
        /\ UNCHANGED now_ms

CanvasPanEnd ==
    /\ CanvasOp(canvas_pan_end(canvas), <<"canvas_pan_end", "">>)
    /\ UNCHANGED now_ms

CanvasPanDelta ==
    \E d \in PanDeltas :
        /\ CanvasOp(canvas_pan_delta(canvas, d[1], d[2]), <<"canvas_pan_delta", "">>)
        /\ UNCHANGED now_ms

\* view_snap / views_gather start a snap at the current clock reading.
CanvasSnapBegin ==
    \E t \in SnapTargets :
        /\ CanvasOp(canvas_snap_begin(canvas, t[1], t[2], now_ms), <<"snap_begin", "">>)
        /\ UNCHANGED now_ms

\* A frame (output_render_custom): the clock is sampled, some time after the
\* previous event, and the snap animation advanced to it.
CanvasFrame ==
    /\ now_ms' = now_ms + ClockStep
    /\ CanvasOp(canvas_update_snap_animation(canvas, now_ms'),
                <<"frame", IF canvas.snap_anim_active THEN "snapping" ELSE "idle">>)

CanvasNext ==
    \/ CanvasZoom
    \/ CanvasSetScale
    \/ CanvasPanBegin
    \/ CanvasPanUpdate
    \/ CanvasPanEnd
    \/ CanvasPanDelta
    \/ CanvasSnapBegin
    \/ CanvasFrame

SpecCanvas == Init /\ [][CanvasNext]_vars

(***************************************************************************)
(* The snap animation on its own: snaps are started (view_snap,            *)
(* views_gather) and frames tick them.  The output is committed on every    *)
(* frame, so the backend keeps sending frame events: frames are weakly fair *)
(* until the clock reaches the end of the run.  A snap is started only      *)
(* while the run still has the 800 ms it needs.                             *)
(***************************************************************************)
SnapOp(c2, op) ==
    /\ canvas' = c2
    /\ lastOp' = op
    /\ UNCHANGED <<drawVars, inputVars>>

\* `steps` counts the snaps started.
SnapStart ==
    \E t \in SnapTargets :
        /\ steps < MaxSnaps
        /\ steps' = steps + 1
        /\ now_ms + CANVAS_SNAP_DURATION_MS <= MaxFrames * ClockStep
        /\ SnapOp(canvas_snap_begin(canvas, t[1], t[2], now_ms), <<"snap_begin", "">>)
        /\ UNCHANGED now_ms

\* A frame that leaves the snap animation out.
SnapFrameWithoutTick ==
    /\ now_ms < MaxFrames * ClockStep
    /\ now_ms' = now_ms + ClockStep
    /\ SnapOp(canvas, <<"frame", IF canvas.snap_anim_active THEN "snapping" ELSE "idle">>)
    /\ UNCHANGED steps

SnapFrame ==
    /\ now_ms < MaxFrames * ClockStep
    /\ now_ms' = now_ms + ClockStep
    /\ LET c2 == canvas_update_snap_animation(canvas, now_ms + ClockStep)
       IN  SnapOp(c2, <<"frame", IF ~canvas.snap_anim_active THEN "idle"
                                 ELSE IF c2.snap_anim_active THEN "snapping"
                                 ELSE "completed">>)
    /\ UNCHANGED steps

SnapNext ==
    \/ SnapStart
    \/ SnapFrame

\* The next frame event arrives: the clock moves on by one frame period.
\* Within SnapNext these are exactly the SnapFrame steps, and SnapFrame is
\* enabled exactly when this is.
FrameArrives ==
    /\ now_ms < MaxFrames * ClockStep
    /\ now_ms' = now_ms + ClockStep

SpecSnap == Init /\ [][SnapNext]_vars /\ WF_now_ms(FrameArrives)

(***************************************************************************)
(* views_gather on its own: the run starts from a layout of mapped windows *)
(* (the newest first and focused, as handle_map leaves it), and every step *)
(* is one gather.  Layouts are those whose distances from the centroid are *)
(* rational, before every gather of the run.                               *)
(***************************************************************************)
GatherSizes == { [x |-> 0, y |-> 0, width |-> 100, height |-> 100],
                 [x |-> 0, y |-> 0, width |-> 200, height |-> 100] }

GatherPlacements == [x : {0, 300}, y : {0, 400}, geo : GatherSizes]

GatherScales == { R(1), <<1, 2>>, R(2) }

GatherGaps == { R(0), R(20) }

GatherTimes == { 0, 1000 }

PlacedView(id, p, head) ==
    [ id |-> id, mapped |-> TRUE, is_moving |-> FALSE, focused |-> head,
      x |-> R(p.x), y |-> R(p.y),
      grab_x |-> R(0), grab_y |-> R(0),
      grab_view_x |-> R(0), grab_view_y |-> R(0),
      focus_animation |-> IF head THEN R(1) ELSE R(0), focus_anim_start_ms |-> 0,
      focus_anim_active |-> FALSE,
      map_animation |-> R(1), map_anim_start_ms |-> 0,
      is_animating_out |-> FALSE,
      geo |-> p.geo ]

GatherLayouts ==
    UNION { { [i \in 1..n |-> PlacedView(n + 1 - i, f[i], i = 1)] :
                f \in [1..n -> GatherPlacements] } : n \in 0..MaxGatherViews }

\* Three 100x100 windows side by side in a row, in several list orders.
GatherRows ==
    { [i \in 1..3 |-> PlacedView(4 - i, [x |-> xs[i], y |-> 0,
                                         geo |-> [x |-> 0, y |-> 0, width |-> 100,
                                                  height |-> 100]], i = 1)] :
        xs \in { <<0, 300, 600>>, <<150, 300, 450>>, <<450, 150, 300>> } }

\* x, y, width and height of every listed view, in list order.
Boxes(vs) ==
    [i \in DOMAIN vs |-> <<vs[i].x, vs[i].y, vs[i].geo.width, vs[i].geo.height>>]

InitGather ==
    /\ views \in { vs \in GatherLayouts \cup GatherRows : ExactDistances(vs) }
    /\ \E scale \in GatherScales : canvas = [canvas_init EXCEPT !.scale = scale]
    /\ now_ms \in GatherTimes
    /\ server = [server_started EXCEPT !.next_view_id = Len(views),
                                    !.focused_surface = Len(views),
                                    !.listeners = @ \cup ViewListeners(views)]
    /\ live = ViewIds(views)
    /\ drawing = drawing_init
    /\ stroke_alloc = 0
    /\ steps = 0
    /\ lastOp = <<"init", "">>
    /\ committed = {}
    /\ redo_dropped = {}
    /\ switcher = switcher_init
    /\ pressed = {}
    /\ fault = FALSE
    /\ press_mode = NoPress

\* `steps` counts the gathers; lastOp keeps the gap and the boxes the gather
\* started from.
Gather ==
    \E minimum_gap \in GatherGaps :
        /\ steps < MaxGathers
        /\ ExactDistances(views)
        /\ LET w2 == views_gather(World, minimum_gap, now_ms)
           IN  /\ views' = w2.views
               /\ canvas' = w2.canvas
        /\ steps' = steps + 1
        /\ lastOp' = <<"views_gather", minimum_gap, Boxes(views)>>
        /\ UNCHANGED <<server, switcher, pressed, fault, press_mode, live,
                       drawVars, now_ms>>

GatherNext == Gather

SpecGather == InitGather /\ [][GatherNext]_vars

(***************************************************************************)
(* The drawing operations (keyboard.c and drawing_ui.c call undo, redo,    *)
(* clear and toggle; cursor.c calls stroke_begin / add_point / stroke_end). *)
(***************************************************************************)
\* History: a stroke that appears in `strokes` without having been in either
\* list was committed now; the redo strokes that vanish with it were dropped.
\* The history of commits across a step that takes the drawing layer from d
\* to d2; `cleared` says the step ran drawing_clear_all.
Kept(d) == StrokeIds(d.strokes) \cup StrokeIds(d.redo_stack)

Fresh(d, d2) == StrokeIds(d2.strokes) \ Kept(d)

History(d, d2, cleared) ==
    /\ committed' = IF cleared THEN {} ELSE committed \cup Fresh(d, d2)
    /\ redo_dropped' = IF cleared THEN {}
                       ELSE IF Fresh(d, d2) # {}
                            THEN redo_dropped \cup (StrokeIds(d.redo_stack) \ Kept(d2))
                            ELSE redo_dropped

DrawOp(d2, op) ==
    /\ drawing' = d2
    /\ lastOp' = op
    /\ History(drawing, d2, op[1] = "clear_all")
    /\ UNCHANGED <<canvas, now_ms, steps>>
    /\ UNCHANGED inputVars

InProgress(d) == d.is_drawing /\ d.current_stroke.id # NULL

EndBranch(d) ==
    IF ~InProgress(d) THEN "noop"
    ELSE IF Len(d.current_stroke.points) < 2 THEN "discarded" ELSE "committed"

ToggleMode ==
    /\ DrawOp(drawing_toggle_mode(drawing),
              <<"toggle_mode", IF drawing.drawing_mode THEN EndBranch(drawing) ELSE "on">>)
    /\ UNCHANGED stroke_alloc

ClearAll ==
    /\ DrawOp(drawing_clear_all(drawing), <<"clear_all", "">>)
    /\ UNCHANGED stroke_alloc

\* Each action is enabled where the handler gets past its early returns.
UndoLast ==
    /\ InProgress(drawing) \/ drawing.strokes # <<>>
    /\ DrawOp(drawing_undo_last(drawing),
              <<"undo_last", IF InProgress(drawing) THEN "in_progress" ELSE "moved">>)
    /\ UNCHANGED stroke_alloc

RedoLast ==
    /\ drawing.redo_stack # <<>>
    /\ DrawOp(drawing_redo_last(drawing), <<"redo_last", "moved">>)
    /\ UNCHANGED stroke_alloc

StrokeBegin ==
    \E p \in DrawPoints :
        /\ drawing.drawing_mode
        /\ stroke_alloc < MaxStrokes
        /\ stroke_alloc' = stroke_alloc + 1
        /\ DrawOp(drawing_stroke_begin(drawing, stroke_alloc + 1, p[1], p[2]),
                  <<"stroke_begin", "begun">>)

StrokeAddPoint ==
    \E p \in DrawPoints :
        /\ InProgress(drawing)
        /\ Len(drawing.current_stroke.points) < MaxPoints
        /\ DrawOp(drawing_stroke_add_point(drawing, p[1], p[2]),
                  <<"stroke_add_point",
                    IF TooClose(RSub(p[1], drawing.last_canvas_x),
                                RSub(p[2], drawing.last_canvas_y))
                    THEN "filtered" ELSE "appended">>)
        /\ UNCHANGED stroke_alloc

StrokeEnd ==
    /\ InProgress(drawing)
    /\ DrawOp(drawing_stroke_end(drawing), <<"stroke_end", EndBranch(drawing)>>)
    /\ UNCHANGED stroke_alloc

DrawingNext ==
    \/ ToggleMode
    \/ ClearAll
    \/ UndoLast
    \/ RedoLast
    \/ StrokeBegin
    \/ StrokeAddPoint
    \/ StrokeEnd

SpecDrawing == Init /\ [][DrawingNext]_vars

(***************************************************************************)
(* The compositor's event handlers, as the event loop runs them.           *)
(***************************************************************************)
\* Every handler runs to completion; a dead process handles nothing.
\* `cleared` says the handler ran drawing_clear_all.
Event(w2, op, cleared) ==
    /\ ~fault
    /\ steps < MaxEvents
    /\ steps' = steps + 1
    /\ server' = w2.server
    /\ views' = w2.views
    /\ switcher' = w2.switcher
    /\ canvas' = w2.canvas
    /\ drawing' = w2.drawing
    /\ fault' = w2.fault
    /\ lastOp' = op
    /\ press_mode' =
          IF op[1] = "cursor_motion" THEN press_mode
          ELSE IF op[1] = "button_press"
                  /\ op[2] \in {INFINIDESK_CURSOR_MOVE, INFINIDESK_CURSOR_PAN,
                                INFINIDESK_CURSOR_DRAW}
          THEN <<w2.server.cursor_mode, w2.server.grabbed_view>>
          ELSE NoPress
    /\ live' =
          IF op[1] = "new_xdg_toplevel" THEN live \cup {server.next_view_id + 1}
          ELSE IF op[1] = "handle_destroy" THEN live \ {op[3]}
          ELSE live
    /\ History(drawing, w2.drawing, cleared)

\* handle_new_xdg_toplevel (xdg_shell.c).
NewXdgToplevel ==
    /\ server.next_view_id < MaxViews
    /\ Event(view_create(World), <<"new_xdg_toplevel", "">>, FALSE)
    /\ UNCHANGED <<pressed, stroke_alloc, now_ms>>

SurfaceMap ==
    \E id \in ViewIds(views) \ MappedIds(views) :
        /\ Event(handle_map(World, id, now_ms), <<"handle_map", "">>, FALSE)
        /\ UNCHANGED <<pressed, stroke_alloc, now_ms>>

SurfaceUnmap ==
    \E id \in MappedIds(views) :
        /\ Event(handle_unmap(World, id),
                 <<"handle_unmap",
                   IF server.grabbed_view = id THEN "grabbed" ELSE "", id,
                   ViewOf(views, id).map_animation>>, FALSE)
        /\ UNCHANGED <<pressed, stroke_alloc, now_ms>>

ToplevelDestroy ==
    \E id \in ViewIds(views) :
        /\ Event(handle_destroy(World, id),
                 <<"handle_destroy",
                   IF server.grabbed_view = id THEN "grabbed"
                   ELSE IF switcher.selected = id THEN "selected" ELSE "", id>>, FALSE)
        /\ UNCHANGED <<pressed, stroke_alloc, now_ms>>

\* keyboard_handle_key: the canvas modifier goes down or up.
KeyModifier ==
    /\ Event([World EXCEPT !.server.super_pressed = ~@],
             <<"key_modifier", IF server.super_pressed THEN "released" ELSE "pressed">>,
             FALSE)
    /\ UNCHANGED <<pressed, stroke_alloc, now_ms>>

\* keyboard_handle_keybinding: the bindings need the modifier held.
KeyToggleDrawing ==
    /\ server.super_pressed
    /\ Event([World EXCEPT !.drawing = drawing_toggle_mode(@)],
             <<"key_toggle_drawing", "">>, FALSE)
    /\ UNCHANGED <<pressed, stroke_alloc, now_ms>>

KeyUndo ==
    /\ server.super_pressed
    /\ InProgress(drawing) \/ drawing.strokes # <<>>
    /\ Event([World EXCEPT !.drawing = drawing_undo_last(@)],
             <<"key_undo", IF InProgress(drawing) THEN "in_progress" ELSE "moved">>,
             FALSE)
    /\ UNCHANGED <<pressed, stroke_alloc, now_ms>>

KeyClear ==
    /\ server.super_pressed
    /\ Event([World EXCEPT !.drawing = drawing_clear_all(@)],
             <<"key_clear", "">>, TRUE)
    /\ UNCHANGED <<pressed, stroke_alloc, now_ms>>

\* The view that the close binding hands to view_close, which sends it the
\* close request: the head of the list, or none when the list is empty.
close_window(w) ==
    IF w.views = <<>> THEN NULL ELSE w.views[1].id

KeyCloseWindow ==
    /\ server.super_pressed
    /\ Event(World, <<"close_window", close_window(World)>>, FALSE)
    /\ UNCHANGED <<pressed, stroke_alloc, now_ms>>

\* cursor_handle_motion: wlr_cursor_move, then cursor_process_motion.
CursorMotion ==
    \E p \in CursorPoints \ {<<server.cursor_x, server.cursor_y>>},
       hit \in MappedIds(views) \cup {NULL},
       edges \in BOOLEAN :
        /\ server.cursor_mode # INFINIDESK_CURSOR_PASSTHROUGH => hit = NULL /\ ~edges
        /\ (server.cursor_mode = INFINIDESK_CURSOR_DRAW /\ InProgress(drawing))
              => Len(drawing.current_stroke.points) < MaxPoints
        /\ Event(cursor_process_motion(
                     [World EXCEPT !.server.cursor_x = p[1], !.server.cursor_y = p[2]],
                     hit, edges),
                 <<"cursor_motion", server.cursor_mode>>, FALSE)
        /\ UNCHANGED <<pressed, stroke_alloc, now_ms>>

\* cursor_handle_button, pressed.  The seat records the button as held.
ButtonPress ==
    \E button \in {BTN_LEFT, BTN_RIGHT} \ pressed,
       hit \in MappedIds(views) \cup {NULL},
       at \in PanelProbes :
        LET ui == drawing_ui_get_button_at(ui_panel, at[1], at[2])
            begins == drawing.drawing_mode /\ ui = UI_BUTTON_NONE /\ button = BTN_LEFT
            w2 == cursor_handle_button_pressed(World, button, hit, ui, stroke_alloc + 1)
        IN  /\ ~drawing.drawing_mode => at = OffPanel
            /\ begins => stroke_alloc < MaxStrokes
            /\ pressed' = pressed \cup {button}
            /\ stroke_alloc' = IF begins THEN stroke_alloc + 1 ELSE stroke_alloc
            /\ Event(w2, <<"button_press", PressBranch(World, button, hit, ui),
                           button, InPanelBounds(ui_panel, at[1], at[2])>>,
                     drawing.drawing_mode /\ button = BTN_LEFT /\ ui = "UI_BUTTON_CLEAR")
            /\ UNCHANGED now_ms

\* cursor_handle_button, released.
ButtonRelease ==
    \E button \in pressed :
        /\ pressed' = pressed \ {button}
        /\ Event(cursor_handle_button_released(World),
                 <<"button_release", server.cursor_mode>>, FALSE)
        /\ UNCHANGED <<stroke_alloc, now_ms>>

SwitcherStart ==
    /\ views # <<>>
    /\ Event(switcher_start(World), <<"switcher_start", "">>, FALSE)
    /\ UNCHANGED <<pressed, stroke_alloc, now_ms>>

SwitcherNext ==
    /\ switcher.active
    /\ \E w2 \in IF StaleSelection(World) THEN StaleStepOutcomes(World)
                 ELSE {switcher_next(World)} :
          Event(w2, <<"switcher_next",
                      IF StaleSelection(World) THEN "stale" ELSE "">>, FALSE)
    /\ UNCHANGED <<pressed, stroke_alloc, now_ms>>

SwitcherPrev ==
    /\ switcher.active
    /\ \E w2 \in IF StaleSelection(World) THEN StaleStepOutcomes(World)
                 ELSE {switcher_prev(World)} :
          Event(w2, <<"switcher_prev",
                      IF StaleSelection(World) THEN "stale" ELSE "">>, FALSE)
    /\ UNCHANGED <<pressed, stroke_alloc, now_ms>>

SwitcherConfirm ==
    /\ switcher.active
    /\ \E w2 \in IF Freed(World, switcher.selected)
                 THEN StaleConfirmOutcomes(World, now_ms, SnapTargets)
                 ELSE {switcher_confirm(World, now_ms)} :
          Event(w2, <<"switcher_confirm",
                      IF Freed(World, switcher.selected) THEN "stale" ELSE "">>, FALSE)
    /\ UNCHANGED <<pressed, stroke_alloc, now_ms>>

SwitcherCancel ==
    /\ Event(switcher_cancel(World), <<"switcher_cancel", "">>, FALSE)
    /\ UNCHANGED <<pressed, stroke_alloc, now_ms>>

\* output_render_custom: samples the clock, advances the views' and the
\* viewport's animations, then draws the switcher overlay.
OutputFrame ==
    /\ now_ms' = now_ms + ClockStep
    /\ Event(switcher_render(
                 [view_update_focus_animations(World, now_ms + ClockStep)
                    EXCEPT !.canvas = canvas_update_snap_animation(@, now_ms + ClockStep)]),
             <<"frame", IF canvas.snap_anim_active THEN "snapping" ELSE "idle">>, FALSE)
    /\ UNCHANGED <<pressed, stroke_alloc>>

Next ==
    \/ NewXdgToplevel
    \/ SurfaceMap
    \/ SurfaceUnmap
    \/ ToplevelDestroy
    \/ KeyModifier
    \/ KeyToggleDrawing
    \/ KeyUndo
    \/ KeyClear
    \/ CursorMotion
    \/ ButtonPress
    \/ ButtonRelease
    \/ SwitcherStart
    \/ SwitcherNext
    \/ SwitcherPrev
    \/ SwitcherConfirm
    \/ SwitcherCancel
    \/ OutputFrame

Spec == Init /\ [][Next]_vars

(***************************************************************************)
(* The windows' life cycle and the close binding.                          *)
(***************************************************************************)
CloseNext ==
    \/ NewXdgToplevel
    \/ SurfaceMap
    \/ SurfaceUnmap
    \/ ToplevelDestroy
    \/ KeyModifier
    \/ KeyCloseWindow

SpecClose == Init /\ [][CloseNext]_vars

(***************************************************************************)
(* Outputs, keyboards and layer surfaces: the objects the backend and the  *)
(* layer shell announce, the listeners their wrappers hold, and the end of *)
(* the server.                                                             *)
(***************************************************************************)
MaxOutputs == 2
MaxKeyboards == 2
MaxLayers == 2

LAYER_SHELL_LAYER_COUNT == 4
ZWLR_LAYER_SHELL_V1_LAYER_TOP == 2

OutputIds(w) == { w.server.outputs[i].id : i \in DOMAIN w.server.outputs }
LayerIds(w) == { w.server.layers[i].id : i \in DOMAIN w.server.layers }
LayerOf(w, id) ==
    w.server.layers[CHOOSE i \in DOMAIN w.server.layers : w.server.layers[i].id = id]

\* handle_new_output: the wrapper with its three listeners, the usable area
\* set to the output's effective resolution, inserted at the head of
\* server->outputs.
handle_new_output(w, id) ==
    add_listeners(
        [w EXCEPT !.server.outputs = <<[id |-> id, usable_area |-> Usable]>> \o @],
        Listeners("output", id, OutputSignals))

\* output_handle_destroy, called through the output's destroy signal.  The
\* layer surfaces of the output keep their pointer to the freed wrapper.
output_handle_destroy(w, id) ==
    remove_listeners(
        [w EXCEPT !.server.outputs = SelectSeq(@, LAMBDA o : o.id # id),
                  !.server.destroyed = @ \cup {<<"output", id>>}],
        Listeners("output", id, OutputSignals))

\* output_get_primary: the head of server->outputs, NULL without outputs.
output_get_primary(w) ==
    IF w.server.outputs = <<>> THEN NULL ELSE w.server.outputs[1].id

\* keyboard_create, from handle_new_input for a keyboard device.
keyboard_create(w, id) ==
    add_listeners([w EXCEPT !.server.keyboards = @ \cup {id},
                            !.server.seat_keyboard = id],
                  Listeners("keyboard", id, KeyboardSignals))

\* keyboard_handle_destroy, called through the device's destroy signal.  The
\* seat forgets a keyboard that is destroyed; its focused surface stays.
keyboard_handle_destroy(w, id) ==
    remove_listeners(
        [w EXCEPT !.server.keyboards = @ \ {id},
                  !.server.seat_keyboard = IF @ = id THEN NULL ELSE @,
                  !.server.destroyed = @ \cup {<<"keyboard", id>>}],
        Listeners("keyboard", id, KeyboardSignals))

\* layer_surface_exclusive_zone of the scene helper: a positive zone of a
\* surface anchored to one edge is taken from that edge of the usable area.
layer_surface_exclusive_zone(state, usable) ==
    LET z == state.exclusive_zone
    IN  IF state.anchor = "top"
        THEN [usable EXCEPT !.y = @ + z, !.height = @ - z]
        ELSE IF state.anchor = "bottom" THEN [usable EXCEPT !.height = @ - z]
        ELSE IF state.anchor = "left"
        THEN [usable EXCEPT !.x = @ + z, !.width = @ - z]
        ELSE IF state.anchor = "right" THEN [usable EXCEPT !.width = @ - z]
        ELSE usable

\* wlr_scene_layer_surface_v1_configure: positions the surface and, for a
\* mapped surface with a positive exclusive zone, shrinks the usable area.
wlr_scene_layer_surface_v1_configure(layer, full_area, usable_area) ==
    IF layer.mapped /\ layer.current.exclusive_zone > 0
    THEN layer_surface_exclusive_zone(layer.current, usable_area)
    ELSE usable_area

\* output->layer_surfaces[layer_idx] of output o, head first.
layer_surfaces(w, o, layer_idx) ==
    SelectSeq(w.server.layers, LAMBDA l : l.output = o /\ l.link = layer_idx)

RECURSIVE configure_list(_, _, _)
configure_list(list, full_area, usable_area) ==
    IF list = <<>> THEN usable_area
    ELSE configure_list(Tail(list), full_area,
             wlr_scene_layer_surface_v1_configure(Head(list), full_area, usable_area))

\* layer_shell_arrange: starting from the full output box, every surface of
\* the four lists is configured in layer order and the result is stored.  An
\* output wrapper that was freed is read and written all the same.
layer_shell_arrange(w, o) ==
    IF o \notin OutputIds(w) THEN Crash(w)
    ELSE LET full_area == Usable
             all == layer_surfaces(w, o, 0) \o layer_surfaces(w, o, 1)
                      \o layer_surfaces(w, o, 2) \o layer_surfaces(w, o, 3)
             usable_area == configure_list(all, full_area, full_area)
         IN  [w EXCEPT !.server.outputs =
                 [i \in DOMAIN @ |->
                     IF @[i].id = o THEN [@[i] EXCEPT !.usable_area = usable_area]
                     ELSE @[i]]]

\* The double-buffered state of a layer surface.
LayerState(layer, exclusive_zone, anchor) ==
    [layer |-> layer, exclusive_zone |-> exclusive_zone, anchor |-> anchor]

\* handle_new_layer_surface for a surface the client asked on `output` (NULL:
\* none) and `layer`.  Without an output the surface is destroyed at once;
\* otherwise the wrapper gets its five listeners, is linked at the head of
\* the list of its pending layer and the output is arranged.
handle_new_layer_surface(w, id, output, layer) ==
    LET o == IF output = NULL THEN output_get_primary(w) ELSE output
        shell_layer == IF layer >= LAYER_SHELL_LAYER_COUNT
                       THEN ZWLR_LAYER_SHELL_V1_LAYER_TOP ELSE layer
        wrapper == [ id |-> id, output |-> o, link |-> shell_layer,
                     pending |-> LayerState(layer, 0, "none"),
                     current |-> LayerState(0, 0, "none"),
                     committed |-> {}, initial_commit |-> FALSE,
                     initialized |-> FALSE, mapped |-> FALSE ]
    IN  IF o = NULL \/ o \notin OutputIds(w)
        THEN [w EXCEPT !.server.destroyed = @ \cup {<<"layer", id>>}]
        ELSE layer_shell_arrange(
                 add_listeners([w EXCEPT !.server.layers = <<wrapper>> \o @],
                               Listeners("layer", id, LayerSignals)),
                 o)

\* handle_layer_surface_destroy: unlinks the wrapper, removes its listeners
\* and arranges the output it was created on.
handle_layer_surface_destroy(w, id) ==
    layer_shell_arrange(
        remove_listeners(
            [w EXCEPT !.server.layers = SelectSeq(@, LAMBDA l : l.id # id),
                      !.server.destroyed = @ \cup {<<"layer", id>>}],
            Listeners("layer", id, LayerSignals)),
        LayerOf(w, id).output)

\* The wrapper of surface id replaced by rec.
SetLayer(w, id, rec) ==
    [w EXCEPT !.server.layers =
        [i \in DOMAIN @ |-> IF @[i].id = id THEN rec ELSE @[i]]]

\* wl_list_remove(&layer->link) and wl_list_insert at the head of
\* output->layer_surfaces[layer_idx].
layer_relink(w, id, layer_idx) ==
    [w EXCEPT !.server.layers =
        <<[LayerOf(w, id) EXCEPT !.link = layer_idx]>>
            \o SelectSeq(@, LAMBDA l : l.id # id)]

handle_layer_surface_map(w, id) == layer_shell_arrange(w, LayerOf(w, id).output)

\* An unmap handler that leaves the usable area as it is.
handle_layer_surface_unmap_no_arrange(w, id) == w

handle_layer_surface_unmap(w, id) == layer_shell_arrange(w, LayerOf(w, id).output)

\* handle_layer_surface_commit.  `committed` holds the names of the fields of
\* the current state that this commit changed.
handle_layer_surface_commit(w, id) ==
    LET layer == LayerOf(w, id)
        current_layer == layer.current.layer
        pending_layer == layer.pending.layer
    IN  IF layer.initial_commit
        THEN layer_shell_arrange(
                 IF current_layer # pending_layer
                    /\ current_layer < LAYER_SHELL_LAYER_COUNT
                 THEN layer_relink(w, id, current_layer) ELSE w,
                 layer.output)
        ELSE IF ~layer.initialized THEN w
        ELSE LET w1 == IF "layer" \in layer.committed
                          /\ current_layer < LAYER_SHELL_LAYER_COUNT
                       THEN layer_relink(w, id, current_layer) ELSE w
             IN  IF layer.committed # {}
                 THEN layer_shell_arrange(w1, layer.output) ELSE w1

\* wl_surface.commit on a layer surface after the client's requests have left
\* `pending` as its pending state: the pending state becomes the current one
\* (and stays the pending one), the changed fields are flagged, and the first
\* commit is the initial one.
surface_commit(w, id, pending) ==
    LET layer == LayerOf(w, id)
    IN  SetLayer(w, id,
            [layer EXCEPT !.pending = pending,
                          !.current = pending,
                          !.committed = { f \in DOMAIN pending :
                                            pending[f] # layer.current[f] },
                          !.initial_commit = ~layer.initialized,
                          !.initialized = TRUE])

\* The states a client asks for: <<layer, exclusive zone, anchored edge>>.
LayerRequests ==
    { LayerState(0, 0, "none"), LayerState(1, -1, "bottom"), LayerState(2, 30, "top"),
      LayerState(3, 30, "top"), LayerState(2, 40, "left"), LayerState(1, 50, "right") }

\* The objects that wl_display_destroy takes down with the display: the
\* backend (with the event loop), the seat and the shell globals.  The
\* wlr_cursor is not attached to the display and is never destroyed.
DisplayObjects ==
    { <<"display", 0>>, <<"backend", 0>>, <<"seat", 0>>, <<"xdg_shell", 0>>,
      <<"xdg_decoration_manager", 0>>, <<"layer_shell", 0>> }

RECURSIVE destroy_views(_)
destroy_views(w) ==
    IF w.views = <<>> THEN w ELSE destroy_views(view_destroy(w, w.views[1].id))

RECURSIVE destroy_layers(_)
destroy_layers(w) ==
    IF w.server.layers = <<>> \/ w.fault THEN w
    ELSE destroy_layers(handle_layer_surface_destroy(w, w.server.layers[1].id))

RECURSIVE destroy_outputs(_)
destroy_outputs(w) ==
    IF w.server.outputs = <<>> THEN w
    ELSE destroy_outputs(output_handle_destroy(w, w.server.outputs[1].id))

RECURSIVE destroy_keyboards(_)
destroy_keyboards(w) ==
    IF w.server.keyboards = {} THEN w
    ELSE destroy_keyboards(
             keyboard_handle_destroy(w, CHOOSE k \in w.server.keyboards : TRUE))

\* server_finish: view_destroy for every view, drawing_finish,
\* switcher_finish, then wl_display_destroy_clients (the clients' layer
\* surfaces go through their destroy handlers; the toplevels have no
\* listener left) and wl_display_destroy (outputs and keyboards go through
\* theirs).  Nothing else is unlinked.
server_finish(w) ==
    LET w1 == destroy_views(w)
        w2 == [w1 EXCEPT !.drawing = drawing_clear_all(@),
                         !.switcher.texture = NULL]
        w3 == destroy_layers(w2)
        w4 == destroy_keyboards(destroy_outputs(w3))
    IN  [w4 EXCEPT !.server.destroyed = @ \cup DisplayObjects]

Running == <<"display", 0>> \notin server.destroyed

\* A step on the objects; live2 is the set of toplevels that exist after it.
ObjectEvent(w2, op, live2) ==
    /\ ~fault
    /\ Running
    /\ steps < MaxEvents
    /\ steps' = steps + 1
    /\ server' = w2.server
    /\ views' = w2.views
    /\ switcher' = w2.switcher
    /\ canvas' = w2.canvas
    /\ drawing' = w2.drawing
    /\ fault' = w2.fault
    /\ lastOp' = op
    /\ live' = live2
    /\ UNCHANGED <<pressed, stroke_alloc, now_ms, press_mode>>

\* The objects of a kind are numbered in the order in which they appear.
FreshId(kind, used, max) ==
    { id \in 1..max : /\ id \notin used
                      /\ <<kind, id>> \notin server.destroyed
                      /\ \A j \in 1..(id - 1) :
                            j \in used \/ <<kind, j>> \in server.destroyed }

NewOutput ==
    \E id \in FreshId("output", OutputIds(World), MaxOutputs) :
        /\ ObjectEvent(handle_new_output(World, id), <<"handle_new_output", id>>, live)
        /\ UNCHANGED <<committed, redo_dropped>>

OutputDestroy ==
    \E id \in OutputIds(World) :
        /\ ObjectEvent(output_handle_destroy(World, id),
                       <<"output_handle_destroy", id>>, live)
        /\ UNCHANGED <<committed, redo_dropped>>

NewKeyboard ==
    \E id \in FreshId("keyboard", server.keyboards, MaxKeyboards) :
        /\ ObjectEvent(keyboard_create(World, id), <<"keyboard_create", id>>, live)
        /\ UNCHANGED <<committed, redo_dropped>>

KeyboardDestroy ==
    \E id \in server.keyboards :
        /\ ObjectEvent(keyboard_handle_destroy(World, id),
                       <<"keyboard_handle_destroy", id>>, live)
        /\ UNCHANGED <<committed, redo_dropped>>

NewLayerSurface ==
    \E id \in FreshId("layer", LayerIds(World), MaxLayers),
       output \in OutputIds(World) \cup {NULL},
       layer \in 0..(LAYER_SHELL_LAYER_COUNT - 1) :
        /\ ObjectEvent(handle_new_layer_surface(World, id, output, layer),
                       <<"handle_new_layer_surface", id>>, live)
        /\ UNCHANGED <<committed, redo_dropped>>

LayerSurfaceDestroy ==
    \E id \in LayerIds(World) :
        /\ ObjectEvent(handle_layer_surface_destroy(World, id),
                       <<"handle_layer_surface_destroy", id>>, live)
        /\ UNCHANGED <<committed, redo_dropped>>

\* The main loop has returned: server_finish.
ServerFinish ==
    /\ ObjectEvent(server_finish(World), <<"server_finish", "">>, {})
    /\ History(drawing, drawing_init, TRUE)

LayerSurfaceCommit ==
    \E id \in LayerIds(World), pending \in LayerRequests :
        /\ ObjectEvent(handle_layer_surface_commit(surface_commit(World, id, pending), id),
                       <<"handle_layer_surface_commit", id,
                         IF LayerOf(World, id).initialized THEN "" ELSE "initial">>, live)
        /\ UNCHANGED <<committed, redo_dropped>>

\* The surface gets its first buffer after the initial commit: it is mapped
\* when the map handler runs.
LayerSurfaceMap ==
    \E id \in LayerIds(World) :
        LET layer == LayerOf(World, id)
        IN  /\ layer.initialized
            /\ ~layer.mapped
            /\ ObjectEvent(handle_layer_surface_map(
                               SetLayer(World, id, [layer EXCEPT !.mapped = TRUE]), id),
                           <<"handle_layer_surface_map", id>>, live)
            /\ UNCHANGED <<committed, redo_dropped>>

LayerSurfaceUnmap ==
    \E id \in LayerIds(World) :
        LET layer == LayerOf(World, id)
        IN  /\ layer.mapped
            /\ ObjectEvent(handle_layer_surface_unmap(
                               SetLayer(World, id, [layer EXCEPT !.mapped = FALSE]), id),
                           <<"handle_layer_surface_unmap", id>>, live)
            /\ UNCHANGED <<committed, redo_dropped>>

ListenersNext ==
    \/ Running /\ NewXdgToplevel
    \/ Running /\ SurfaceMap
    \/ Running /\ ToplevelDestroy
    \/ NewOutput
    \/ OutputDestroy
    \/ NewKeyboard
    \/ KeyboardDestroy
    \/ NewLayerSurface
    \/ LayerSurfaceDestroy
    \/ ServerFinish

SpecListeners == Init /\ [][ListenersNext]_vars

(***************************************************************************)
(* The layer shell on the outputs: surfaces are created, committed, mapped,*)
(* unmapped and destroyed.                                                 *)
(***************************************************************************)
MaxLayerEvents == 5

LayerStep == steps < MaxLayerEvents

LayersNext ==
    \/ LayerStep /\ NewOutput
    \/ LayerStep /\ NewLayerSurface
    \/ LayerStep /\ LayerSurfaceCommit
    \/ LayerStep /\ LayerSurfaceMap
    \/ LayerStep /\ LayerSurfaceUnmap
    \/ LayerStep /\ LayerSurfaceDestroy

\* The backend has announced its first output.
InitLayers ==
    /\ canvas = canvas_init
    /\ drawing = drawing_init
    /\ stroke_alloc = 0
    /\ now_ms = 0
    /\ steps = 0
    /\ lastOp = <<"handle_new_output", 1>>
    /\ committed = {}
    /\ redo_dropped = {}
    /\ server = handle_new_output(
                    [ server |-> server_started, views |-> <<>>,
                      switcher |-> switcher_init, canvas |-> canvas_init,
                      drawing |-> drawing_init, fault |-> FALSE ], 1).server
    /\ views = <<>>
    /\ switcher = switcher_init
    /\ pressed = {}
    /\ fault = FALSE
    /\ press_mode = NoPress
    /\ live = {}

SpecLayers == InitLayers /\ [][LayersNext]_vars

(***************************************************************************)
(* Allocation failures: the paths drawing_stroke_begin,                    *)
(* drawing_stroke_add_point and view_create take when calloc or the scene  *)
(* tree constructor returns NULL.                                          *)
(***************************************************************************)
\* drawing_stroke_begin when drawing_stroke_create returns NULL ("stroke"),
\* or drawing_point_create does ("point": the new stroke is freed again).
drawing_stroke_begin_failed(d, which) ==
    IF ~d.drawing_mode THEN d ELSE [d EXCEPT !.current_stroke = NoStroke]

\* cursor_handle_button for a press whose drawing_stroke_begin fails.
cursor_handle_button_pressed_failed(w, button, hit, ui, which) ==
    IF PressBranch(w, button, hit, ui) = INFINIDESK_CURSOR_DRAW
    THEN [w EXCEPT !.server.cursor_mode = INFINIDESK_CURSOR_DRAW,
                   !.drawing = drawing_stroke_begin_failed(@, which)]
    ELSE cursor_handle_button_pressed(w, button, hit, ui, NULL)

\* drawing_stroke_add_point when drawing_point_create returns NULL: the point
\* is dropped before anything is written.
drawing_stroke_add_point_failed(d, canvas_x, canvas_y) == d

\* view_create when calloc returns NULL ("view"), or when
\* wlr_scene_xdg_surface_create does ("scene_tree": the view has taken its id
\* by then and is freed).
view_create_failed(w, which) ==
    IF which = "view" THEN w
    ELSE [w EXCEPT !.server.next_view_id = @ + 1]

NewXdgToplevelFails ==
    \E which \in {"view", "scene_tree"} :
        /\ server.next_view_id < MaxViews
        /\ Event(view_create_failed(World, which),
                 <<"alloc_failed", "view_create", which>>, FALSE)
        /\ UNCHANGED <<pressed, stroke_alloc, now_ms>>

ButtonPressFails ==
    \E which \in {"stroke", "point"}, hit \in MappedIds(views) \cup {NULL} :
        /\ BTN_LEFT \notin pressed
        /\ PressBranch(World, BTN_LEFT, hit, UI_BUTTON_NONE) = INFINIDESK_CURSOR_DRAW
        /\ pressed' = pressed \cup {BTN_LEFT}
        /\ Event(cursor_handle_button_pressed_failed(World, BTN_LEFT, hit,
                                                     UI_BUTTON_NONE, which),
                 <<"alloc_failed", "drawing_stroke_begin", which>>, FALSE)
        /\ UNCHANGED <<stroke_alloc, now_ms>>

CursorMotionFails ==
    \E p \in CursorPoints \ {<<server.cursor_x, server.cursor_y>>} :
        LET w == [World EXCEPT !.server.cursor_x = p[1], !.server.cursor_y = p[2]]
            at == CursorOnCanvas(w)
        IN  /\ server.cursor_mode = INFINIDESK_CURSOR_DRAW
            /\ InProgress(drawing)
            /\ ~TooClose(RSub(at[1], drawing.last_canvas_x),
                         RSub(at[2], drawing.last_canvas_y))
            /\ Event([w EXCEPT !.drawing =
                         drawing_stroke_add_point_failed(@, at[1], at[2])],
                     <<"alloc_failed", "drawing_stroke_add_point", "point">>, FALSE)
            /\ UNCHANGED <<pressed, stroke_alloc, now_ms>>

AllocNext ==
    \/ NewXdgToplevel
    \/ SurfaceMap
    \/ KeyModifier
    \/ KeyToggleDrawing
    \/ CursorMotion
    \/ ButtonPress
    \/ ButtonRelease
    \/ NewXdgToplevelFails
    \/ ButtonPressFails
    \/ CursorMotionFails

SpecAlloc == Init /\ [][AllocNext]_vars

(***************************************************************************)
(* Frames on a running clock.  now_ms is CLOCK_MONOTONIC: it moves between *)
(* events, handle_map reads it when the event is handled (get_time_ms) and *)
(* a frame reads it once, when the frame is rendered.                       *)
(***************************************************************************)
MaxClockTicks == 4

ClockTickMs == VIEW_MAP_ANIM_DURATION_MS \div 4

\* The updates at the head of output_render_custom, with the frame's sample.
output_render_custom(w, time_ms) ==
    switcher_render([view_update_focus_animations(w, time_ms)
                       EXCEPT !.canvas = canvas_update_snap_animation(@, time_ms)])

ClockTick ==
    /\ now_ms < MaxClockTicks * ClockTickMs
    /\ now_ms' = now_ms + ClockTickMs
    /\ lastOp' = <<"tick", "">>
    /\ UNCHANGED <<server, views, switcher, pressed, fault, canvas, drawing,
                   stroke_alloc, steps, committed, redo_dropped, press_mode, live>>

FrameAtClock ==
    /\ Event(output_render_custom(World, now_ms), <<"frame", now_ms>>, FALSE)
    /\ UNCHANGED <<pressed, stroke_alloc, now_ms>>

FramesNext ==
    \/ NewXdgToplevel
    \/ SurfaceMap
    \/ ClockTick
    \/ FrameAtClock

SpecFrames == Init /\ [][FramesNext]_vars

(***************************************************************************)
(* The focus animation on a clock that may wrap.  The run starts 150 ms    *)
(* before the 32-bit millisecond clock wraps, or at 0; the clock moves in  *)
(* ticks of 50 ms, frames sample it, and a focus change is taken only      *)
(* while the run still has the 200 ms its animation needs.  Frames keep    *)
(* arriving and time goes on: both are weakly fair.                        *)
(***************************************************************************)
MaxFocusTicks == 6
MaxFocusEvents == 4
FocusTickMs == 50
FocusClockStarts == { 0, 0 - 150 }

InitFocus ==
    /\ now_ms \in FocusClockStarts
    /\ canvas = canvas_init
    /\ drawing = drawing_init
    /\ stroke_alloc = 0
    /\ steps = 0
    /\ lastOp = <<"init", "">>
    /\ committed = {}
    /\ redo_dropped = {}
    /\ server = server_started
    /\ views = <<>>
    /\ switcher = switcher_init
    /\ pressed = {}
    /\ fault = FALSE
    /\ press_mode = NoPress
    /\ live = {}

\* A focus change needs the run to last for its animation.
FocusStep ==
    /\ steps < MaxFocusEvents
    /\ now_ms + VIEW_FOCUS_ANIM_DURATION_MS <= MaxFocusTicks * FocusTickMs

FocusMap ==
    \E id \in ViewIds(views) \ MappedIds(views) :
        /\ Event(handle_map_at(World, id, now_ms), <<"handle_map", id>>, FALSE)
        /\ UNCHANGED <<pressed, stroke_alloc, now_ms>>

\* A click on a mapped view in PASSTHROUGH: view_focus and view_raise.
FocusClick ==
    \E hit \in MappedIds(views) :
        /\ Event(view_raise(view_focus_at(World, hit, now_ms), hit),
                 <<"view_focus", hit>>, FALSE)
        /\ UNCHANGED <<pressed, stroke_alloc, now_ms>>

FocusTick ==
    /\ now_ms < MaxFocusTicks * FocusTickMs
    /\ now_ms' = now_ms + FocusTickMs
    /\ lastOp' = <<"tick", "">>
    /\ UNCHANGED <<server, views, switcher, pressed, fault, canvas, drawing,
                   stroke_alloc, steps, committed, redo_dropped, press_mode, live>>

\* output_handle_frame: the frame samples the clock and updates the
\* animations.  Frames are not counted as events of the run.
FocusFrame ==
    /\ views' = output_render_custom(World, now_ms).views
    /\ canvas' = output_render_custom(World, now_ms).canvas
    /\ switcher' = output_render_custom(World, now_ms).switcher
    /\ lastOp' = <<"frame", now_ms>>
    /\ UNCHANGED <<server, pressed, fault, drawing, stroke_alloc, now_ms, steps,
                   committed, redo_dropped, press_mode, live>>

FocusNext ==
    \/ FocusStep /\ NewXdgToplevel
    \/ FocusStep /\ FocusMap
    \/ FocusStep /\ FocusClick
    \/ FocusTick
    \/ FocusFrame

\* The next frame event arrives.  Within FocusNext the steps that record a
\* frame in lastOp are exactly the FocusFrame steps.
FocusFrameArrives == lastOp' = <<"frame", now_ms>>

SpecFocus ==
    InitFocus /\ [][FocusNext]_vars
      /\ WF_lastOp(FocusFrameArrives) /\ WF_now_ms(FocusTick)

(***************************************************************************)
(* The keyboard focus of the seat, on a server that starts before any      *)
(* keyboard is announced: keyboards come and go while views are created,   *)
(* mapped, clicked, hovered, picked in the switcher, unmapped and          *)
(* destroyed.                                                              *)
(***************************************************************************)
MaxSeatEvents == 6

InitSeat ==
    /\ now_ms = 0
    /\ canvas = canvas_init
    /\ drawing = drawing_init
    /\ stroke_alloc = 0
    /\ steps = 0
    /\ lastOp = <<"init", "">>
    /\ committed = {}
    /\ redo_dropped = {}
    /\ server = server_init
    /\ views = <<>>
    /\ switcher = switcher_init
    /\ pressed = {}
    /\ fault = FALSE
    /\ press_mode = NoPress
    /\ live = {}

SeatStep == steps < MaxSeatEvents

SeatNext ==
    \/ SeatStep /\ NewKeyboard
    \/ SeatStep /\ KeyboardDestroy
    \/ SeatStep /\ NewXdgToplevel
    \/ SeatStep /\ FocusMap
    \/ SeatStep /\ SurfaceUnmap
    \/ SeatStep /\ ToplevelDestroy
    \/ SeatStep /\ FocusClick
    \/ SeatStep /\ CursorMotion
    \/ SeatStep /\ SwitcherStart
    \/ SeatStep /\ SwitcherNext
    \/ SeatStep /\ SwitcherConfirm

SpecSeat == InitSeat /\ [][SeatNext]_vars

(***************************************************************************)
(* Key events (keyboard.c).  server.held is the set of <<keyboard, key>>   *)
(* that are down, as the keyboards' xkb states have it; a key event        *)
(* reaches the handler before the xkb state of its keyboard is updated, so *)
(* the modifiers the handler reads are those of the keys held before the   *)
(* event.  server.press_forwarded is a history of the keys that are down   *)
(* and whose press was forwarded to the client.                            *)
(***************************************************************************)
XKB_KEY_Alt_L == "Alt_L"
XKB_KEY_Alt_R == "Alt_R"
XKB_KEY_d     == "d"
XKB_KEY_a     == "a"
WLR_MODIFIER_ALT == "ALT"
WL_KEYBOARD_KEY_STATE_PRESSED  == "pressed"
WL_KEYBOARD_KEY_STATE_RELEASED == "released"

Keys == { XKB_KEY_Alt_L, XKB_KEY_Alt_R, XKB_KEY_d, XKB_KEY_a }
ModifierKeys == { XKB_KEY_Alt_L, XKB_KEY_Alt_R }

wlr_keyboard_get_modifiers(w, keyboard) ==
    IF \E key \in ModifierKeys : <<keyboard, key>> \in w.server.held
    THEN {WLR_MODIFIER_ALT} ELSE {}

\* keyboard_handle_keybinding for the keys of the model: the bindings need
\* Alt; Alt + D toggles the drawing mode, Alt + A is not bound.
keyboard_handle_keybinding(w, modifiers, sym) ==
    IF WLR_MODIFIER_ALT \notin modifiers THEN [handled |-> FALSE, w |-> w]
    ELSE IF sym = XKB_KEY_d
    THEN [handled |-> TRUE, w |-> [w EXCEPT !.drawing = drawing_toggle_mode(@)]]
    ELSE [handled |-> FALSE, w |-> w]

\* keyboard_handle_key.  The result says whether the event was forwarded to
\* the client with wlr_seat_keyboard_notify_key.
keyboard_handle_key(w, keyboard, sym, state) ==
    LET modifiers == wlr_keyboard_get_modifiers(w, keyboard)
        w1 == IF sym \in ModifierKeys
              THEN [w EXCEPT !.server.super_pressed =
                                (state = WL_KEYBOARD_KEY_STATE_PRESSED)]
              ELSE w
        bound == IF state = WL_KEYBOARD_KEY_STATE_PRESSED
                 THEN keyboard_handle_keybinding(w1, modifiers, sym)
                 ELSE [handled |-> FALSE, w |-> w1]
    IN  IF bound.handled
        THEN [forwarded |-> FALSE, w |-> bound.w]
        ELSE [forwarded |-> TRUE,
              w |-> [bound.w EXCEPT !.server.seat_keyboard = keyboard]]

MaxKeyEvents == 5

\* Two keyboards are attached.
InitKeys ==
    /\ now_ms = 0
    /\ canvas = canvas_init
    /\ drawing = drawing_init
    /\ stroke_alloc = 0
    /\ steps = 0
    /\ lastOp = <<"init", "">>
    /\ committed = {}
    /\ redo_dropped = {}
    /\ server = keyboard_create(
                    [ server |-> server_started, views |-> <<>>,
                      switcher |-> switcher_init, canvas |-> canvas_init,
                      drawing |-> drawing_init, fault |-> FALSE ], 2).server
    /\ views = <<>>
    /\ switcher = switcher_init
    /\ pressed = {}
    /\ fault = FALSE
    /\ press_mode = NoPress
    /\ live = {}

KeyStep == steps < MaxKeyEvents

\* A key of a keyboard goes down.
KeyPress ==
    \E keyboard \in server.keyboards, sym \in Keys :
        LET r == keyboard_handle_key(World, keyboard, sym,
                                     WL_KEYBOARD_KEY_STATE_PRESSED)
        IN  /\ <<keyboard, sym>> \notin server.held
            /\ Event([r.w EXCEPT
                        !.server.held = @ \cup {<<keyboard, sym>>},
                        !.server.press_forwarded =
                            IF r.forwarded THEN @ \cup {<<keyboard, sym>>} ELSE @],
                     <<"key_pressed", keyboard, sym, r.forwarded>>, FALSE)
            /\ UNCHANGED <<pressed, stroke_alloc, now_ms>>

\* A key that is down goes up.  lastOp records whether its press had been
\* forwarded and whether the release is.
KeyRelease ==
    \E held \in server.held :
        LET r == keyboard_handle_key(World, held[1], held[2],
                                     WL_KEYBOARD_KEY_STATE_RELEASED)
        IN  /\ Event([r.w EXCEPT !.server.held = @ \ {held},
                                  !.server.press_forwarded = @ \ {held}],
                     <<"key_released", held[1], held[2],
                       held \in server.press_forwarded, r.forwarded>>, FALSE)
            /\ UNCHANGED <<pressed, stroke_alloc, now_ms>>

KeysNext ==
    \/ KeyStep /\ KeyPress
    \/ KeyStep /\ KeyRelease

SpecKeys == InitKeys /\ [][KeysNext]_vars

(***************************************************************************)
(* The configuration file.  A file is a sequence of lines; a line is a     *)
(* comment, a scale assignment, a section header or a keybind line, which  *)
(* has a quoted chord (its tokens), an equals sign or none, and a quoted   *)
(* value (a prefix and the rest) or none.                                  *)
(***************************************************************************)
modifier_map == { "super", "alt", "ctrl", "shift" }

\* The key names xkb_keysym_from_name knows, of those used here.
KeysymNames == { "Return", "q", "Escape", "d", "c", "u", "r", "g", "Tab" }

NoKeybindKey == [ ok |-> FALSE, modifiers |-> {}, key |-> "" ]

\* Modifiers and keysym of a chord; not ok for an unknown modifier or key.
parse_keybind_key_string(tokens) ==
    IF tokens = <<>> THEN NoKeybindKey
    ELSE IF \E i \in 1..(Len(tokens) - 1) : tokens[i] \notin modifier_map
    THEN NoKeybindKey
    ELSE IF tokens[Len(tokens)] \notin KeysymNames THEN NoKeybindKey
    ELSE [ ok |-> TRUE,
           modifiers |-> { tokens[i] : i \in 1..(Len(tokens) - 1) },
           key |-> tokens[Len(tokens)] ]

\* The keybind of a chord that parses and a value.
make_keybind(parsed, value) ==
    [ modifiers |-> parsed.modifiers, key |-> parsed.key,
      type  |-> IF value[1] = "exec:" THEN "KEYBIND_EXEC" ELSE "KEYBIND_ACTION",
      value |-> value[2] ]

\* One line of the loop of parse_keybinds_section, on the state of the loop.
keybinds_line(st, line) ==
    IF st.done \/ line.kind = "comment" THEN st
    ELSE IF line.kind = "section"
    THEN IF line.name = "keybinds" THEN [st EXCEPT !.in_section = TRUE]
         ELSE IF st.in_section THEN [st EXCEPT !.done = TRUE]
         ELSE st
    ELSE IF ~st.in_section \/ line.kind # "bind" THEN st
    ELSE IF ~line.eq \/ line.value = <<>> THEN st
    ELSE IF ~parse_keybind_key_string(line.chord).ok THEN st
    ELSE [st EXCEPT !.keybinds =
            Append(@, make_keybind(parse_keybind_key_string(line.chord), line.value))]

RECURSIVE parse_keybinds_section(_, _)
parse_keybinds_section(file, st) ==
    IF file = <<>> THEN st
    ELSE parse_keybinds_section(Tail(file), keybinds_line(st, Head(file)))

default_keybind_lines ==
    << [chord |-> <<"super", "Return">>, value |-> <<"exec:", "kitty">>],
       [chord |-> <<"super", "q">>,      value |-> <<"", "close_window">>],
       [chord |-> <<"super", "Escape">>, value |-> <<"", "exit">>],
       [chord |-> <<"super", "d">>,      value |-> <<"", "toggle_drawing">>],
       [chord |-> <<"super", "c">>,      value |-> <<"", "clear_drawings">>],
       [chord |-> <<"super", "u">>,      value |-> <<"", "undo_stroke">>],
       [chord |-> <<"super", "r">>,      value |-> <<"", "redo_stroke">>],
       [chord |-> <<"super", "g">>,      value |-> <<"", "gather_windows">>],
       [chord |-> <<"alt", "Tab">>,      value |-> <<"", "window_switcher">>] >>

config_set_default_keybinds ==
    [ i \in DOMAIN default_keybind_lines |->
        make_keybind(parse_keybind_key_string(default_keybind_lines[i].chord),
                     default_keybind_lines[i].value) ]

\* The last scale assignment of the file, 1.0 without one.
RECURSIVE parse_scale(_, _)
parse_scale(file, scale) ==
    IF file = <<>> THEN scale
    ELSE parse_scale(Tail(file),
                     IF Head(file).kind = "scale" THEN Head(file).scale ELSE scale)

\* config_load: env says which of the steps before the parse succeed.
config_load(env, file) ==
    IF ~env.home \/ ~env.ensure_config_file \/ ~env.fopen \/ ~env.startup_alloc
    THEN [ ok |-> FALSE, scale |-> R(1), keybinds |-> <<>> ]
    ELSE LET st == parse_keybinds_section(file,
                       [in_section |-> FALSE, done |-> FALSE, keybinds |-> <<>>])
         IN  [ ok |-> TRUE,
               scale |-> parse_scale(file, R(1)),
               keybinds |-> IF st.in_section THEN st.keybinds
                            ELSE config_set_default_keybinds ]

\* main: the server takes scale and keybinds of a configuration that loaded.
main_load_config(w, config) ==
    IF ~config.ok THEN w
    ELSE [w EXCEPT !.server.output_scale = config.scale,
                   !.server.keybinds = config.keybinds]

MaxConfigLines == 3

ConfigLine(kind, name, scale, chord, eq, value) ==
    [ kind |-> kind, name |-> name, scale |-> scale, chord |-> chord, eq |-> eq,
      value |-> value ]

BindLine(chord, eq, value) == ConfigLine("bind", "", R(0), chord, eq, value)

ConfigLines ==
    { ConfigLine("comment", "", R(0), <<>>, FALSE, <<>>),
      ConfigLine("scale", "", R(2), <<>>, FALSE, <<>>),
      ConfigLine("section", "keybinds", R(0), <<>>, FALSE, <<>>),
      ConfigLine("section", "other", R(0), <<>>, FALSE, <<>>),
      BindLine(<<"super", "q">>, TRUE, <<"", "exit">>),
      BindLine(<<"ctrl", "shift", "Return">>, TRUE, <<"exec:", "foot">>),
      BindLine(<<"super", "q">>, FALSE, <<"", "exit">>),
      BindLine(<<"super", "q">>, TRUE, <<>>),
      BindLine(<<"hyper", "q">>, TRUE, <<"", "exit">>),
      BindLine(<<"super", "nokey">>, TRUE, <<"", "exit">>) }

ConfigFiles == UNION { [1..n -> ConfigLines] : n \in 0..MaxConfigLines }

\* At most one of the steps before the parse fails.
ConfigEnvs ==
    { env \in [home : BOOLEAN, ensure_config_file : BOOLEAN, fopen : BOOLEAN,
               startup_alloc : BOOLEAN] :
        Cardinality({ f \in DOMAIN env : ~env[f] }) <= 1 }

MainLoadConfig ==
    \E env \in ConfigEnvs, file \in ConfigFiles :
        /\ steps = 0
        /\ steps' = 1
        /\ server' = main_load_config(World, config_load(env, file)).server
        /\ lastOp' = <<"config_load", env, file>>
        /\ UNCHANGED <<views, canvas, switcher, pressed, fault, press_mode, live,
                       drawVars, now_ms>>

ConfigNext == MainLoadConfig

SpecConfig == Init /\ [][ConfigNext]_vars

(***************************************************************************)
(* Hit testing and rendering.  server_view_at works on doubles; view_render *)
(* rounds to whole pixels.  A rectangle is x, y, width and height.          *)
(***************************************************************************)
MAP_ANIM_SCALE_START == <<9, 10>>

lerp_d(a, b, t) == RAdd(a, RMul(RSub(b, a), t))

\* (int)round(x): to the nearest integer, halves away from zero.
round(x) ==
    LET q == (2 * Abs(x[1]) + x[2]) \div (2 * x[2])
    IN  IF x[1] < 0 THEN 0 - q ELSE q

\* Integer division of C, which truncates toward zero.
IntDiv(a, b) == IF a < 0 THEN 0 - ((0 - a) \div b) ELSE a \div b

\* The rectangle server_view_at tests a mapped view against.
hit_box(view, c) ==
    LET screen == canvas_to_screen(c, view.x, view.y)
    IN  [ x |-> RSub(screen[1], RMul(R(view.geo.x), c.scale)),
          y |-> RSub(screen[2], RMul(R(view.geo.y), c.scale)),
          width  |-> RMul(R(view.geo.width), c.scale),
          height |-> RMul(R(view.geo.height), c.scale) ]

\* lx >= x && lx < x + width && ly >= y && ly < y + height
InBox(box, lx, ly) ==
    /\ RLe(box.x, lx) /\ RLt(lx, RAdd(box.x, box.width))
    /\ RLe(box.y, ly) /\ RLt(ly, RAdd(box.y, box.height))

\* The first view of the list, front to back, that is mapped and whose box
\* has the point; NULL when there is none.
server_view_at(vs, c, lx, ly) ==
    LET under == { i \in DOMAIN vs : vs[i].mapped /\ InBox(hit_box(vs[i], c), lx, ly) }
    IN  IF under = {} THEN NULL
        ELSE vs[CHOOSE i \in under : \A j \in under : i <= j].id

\* The content rectangle of view_render in physical pixels, with drawn FALSE
\* when the view is not mapped or too small to be seen.
content_box(view, geo, screen, base_scale, combined_scale) ==
    LET base_content_width  == round(RMul(R(geo.width), base_scale))
        base_content_height == round(RMul(R(geo.height), base_scale))
        content_width  == round(RMul(R(geo.width), combined_scale))
        content_height == round(RMul(R(geo.height), combined_scale))
    IN  [ drawn  |-> view.mapped /\ content_width > 0 /\ content_height > 0,
          x |-> R(round(screen[1]) - round(RMul(R(geo.x), combined_scale))
                  + IntDiv(base_content_width - content_width, 2)),
          y |-> R(round(screen[2]) - round(RMul(R(geo.y), combined_scale))
                  + IntDiv(base_content_height - content_height, 2)),
          width |-> R(content_width), height |-> R(content_height) ]

view_render(view, c, output_scale) ==
    LET base_scale == RMul(c.scale, output_scale)
        screen == canvas_to_screen(c, view.x, view.y)
    IN  content_box(view, view.geo,
                    <<RMul(screen[1], output_scale), RMul(screen[2], output_scale)>>,
                    base_scale,
                    RMul(base_scale,
                         lerp_d(MAP_ANIM_SCALE_START, R(1), view.map_animation)))

(***************************************************************************)
(* Hit tests on a desktop of one or two mapped windows, each somewhere in  *)
(* its entrance animation, with or without client-side decoration around   *)
(* the window geometry.                                                     *)
(***************************************************************************)
MaxHitTests == 2

HitGeometries == { [x |-> gx, y |-> gx, width |-> 200, height |-> 100] : gx \in {0, 10} }

\* map_animation on mapping, 100 ms later and at the end of the animation.
HitMapAnimations == { R(0), ease_out_cubic(<<1, 2>>), R(1) }

HitPlacements == [x : {0, 100}, y : {0}, geo : HitGeometries]

HitScales == { R(1), <<3, 2>> }

HitPoints == { Pt(5, 5), Pt(50, 50), Pt(-5, -5), Pt(150, 50), Pt(290, 50),
               Pt(400, 50) }

HitLayouts ==
    UNION { { [i \in 1..n |-> [PlacedView(n + 1 - i, f[i], i = 1)
                                 EXCEPT !.map_animation = a[i]]] :
                f \in [1..n -> HitPlacements], a \in [1..n -> HitMapAnimations] } :
            n \in 1..2 }

InitHit ==
    /\ \E scale \in HitScales : canvas = [canvas_init EXCEPT !.scale = scale]
    /\ views \in HitLayouts
    /\ server = [server_started EXCEPT !.focused_surface = views[1].id,
                                    !.next_view_id = Len(views),
                                    !.listeners = @ \cup ViewListeners(views)]
    /\ live = ViewIds(views)
    /\ drawing = drawing_init
    /\ stroke_alloc = 0
    /\ now_ms = 0
    /\ steps = 0
    /\ lastOp = <<"init", "">>
    /\ committed = {}
    /\ redo_dropped = {}
    /\ switcher = switcher_init
    /\ pressed = {}
    /\ fault = FALSE
    /\ press_mode = NoPress

\* The cursor arrives at a point and the view under it is looked up.
ViewAt ==
    \E p \in HitPoints :
        /\ steps < MaxHitTests
        /\ steps' = steps + 1
        /\ server' = [server EXCEPT !.cursor_x = p[1], !.cursor_y = p[2]]
        /\ lastOp' = <<"server_view_at", p, server_view_at(views, canvas, p[1], p[2])>>
        /\ UNCHANGED <<views, canvas, switcher, pressed, fault, press_mode, live,
                       drawVars, now_ms>>

HitNext == ViewAt

SpecHit == InitHit /\ [][HitNext]_vars

(***************************************************************************)
(* The pointer on a desktop of mapped windows: scroll events, the idle     *)
(* timer, the modifier key, motion and buttons, with a clock that moves in *)
(* steps of half the timer's delay.  The event loop dispatches a timer     *)
(* that is due and time goes on: both are weakly fair.  A scroll event is  *)
(* taken only while the run still has the 100 ms its timer needs.          *)
(***************************************************************************)
BaseWorld ==
    [ server |-> server_started, views |-> <<>>, switcher |-> switcher_init,
      canvas |-> canvas_init, drawing |-> drawing_init, fault |-> FALSE ]

\* n toplevels created and mapped one after the other at time 0.
RECURSIVE MappedWorld(_)
MappedWorld(n) ==
    IF n = 0 THEN BaseWorld
    ELSE handle_map(view_create(MappedWorld(n - 1)), n, 0)

InitScroll ==
    /\ server = MappedWorld(2).server
    /\ views = MappedWorld(2).views
    /\ live = 1..2
    /\ canvas = canvas_init
    /\ drawing = drawing_init
    /\ switcher = switcher_init
    /\ fault = FALSE
    /\ stroke_alloc = 0
    /\ now_ms = 0
    /\ steps = 0
    /\ lastOp = <<"init", "">>
    /\ committed = {}
    /\ redo_dropped = {}
    /\ pressed = {}
    /\ press_mode = NoPress

ScrollTickMs == SCROLL_PAN_TIMEOUT_MS \div 2

AxisDeltas == { R(15), R(-15) }

\* The scales one wheel step away from 1.0.
ZoomLevels == { R(1), ZOOM_SCROLL_FACTOR, RDiv(R(1), ZOOM_SCROLL_FACTOR) }

CursorAxis ==
    \E orientation \in {WL_POINTER_AXIS_VERTICAL_SCROLL, WL_POINTER_AXIS_HORIZONTAL_SCROLL},
       delta \in AxisDeltas,
       hit \in MappedIds(views) \cup {NULL} :
        /\ now_ms + SCROLL_PAN_TIMEOUT_MS <= MaxScrollTicks * ScrollTickMs
        /\ cursor_handle_axis(World, orientation, delta, hit, now_ms).canvas.scale
              \in ZoomLevels
        /\ Event(cursor_handle_axis(World, orientation, delta, hit, now_ms),
                 <<"cursor_axis", AxisBranch(World, orientation, hit), orientation,
                   delta, hit>>, FALSE)
        /\ UNCHANGED <<pressed, stroke_alloc, now_ms>>

\* The event loop dispatches the timer once it is due.
ScrollPanTimer ==
    /\ server.scroll_pan_expiry # 0
    /\ now_ms >= server.scroll_pan_expiry
    /\ server' = scroll_pan_timer_callback(World).server
    /\ lastOp' = <<"scroll_pan_timer", "">>
    /\ UNCHANGED <<views, switcher, pressed, fault, canvas, drawing, stroke_alloc,
                   now_ms, steps, committed, redo_dropped, press_mode, live>>

ScrollTick ==
    /\ now_ms < MaxScrollTicks * ScrollTickMs
    /\ now_ms' = now_ms + ScrollTickMs
    /\ lastOp' = <<"tick", "">>
    /\ UNCHANGED <<server, views, switcher, pressed, fault, canvas, drawing,
                   stroke_alloc, steps, committed, redo_dropped, press_mode, live>>

\* An input event of the run, of which there are MaxScrollEvents at most.
ScrollInput ==
    /\ steps < MaxScrollEvents
    /\ \/ CursorAxis
       \/ KeyModifier
       \/ KeyToggleDrawing
       \/ CursorMotion
       \/ ButtonPress
       \/ ButtonRelease

ScrollNext ==
    \/ ScrollInput
    \/ ScrollPanTimer
    \/ ScrollTick

SpecScroll ==
    InitScroll /\ [][ScrollNext]_vars /\ WF_vars(ScrollPanTimer) /\ WF_now_ms(ScrollTick)

(***************************************************************************)
(* Claims about the view lifecycle and the input router (checked under     *)
(* Spec).                                                                   *)
(***************************************************************************)
\* C1: once a view is destroyed neither server.grabbed_view nor
\* switcher.selected refers to it: each is NULL or a view still in the view
\* list, also when the view is destroyed while selected in the active
\* switcher or while being moved.
C1_NoReferenceToDestroyedView ==
    /\ server.grabbed_view = NULL \/ server.grabbed_view \in ViewIds(views)
    /\ switcher.selected = NULL \/ switcher.selected \in ViewIds(views)

\* C10: a button release in MOVE, PAN or DRAW mode ends the operation in
\* progress (view_move_end on the grabbed view, canvas_pan_end,
\* drawing_stroke_end), sets cursor_mode to PASSTHROUGH and grabbed_view to
\* NULL; a release in PASSTHROUGH mode changes no compositor state.
C10_ReleaseEndsOperation ==
    [][ lastOp'[1] = "button_release" =>
          LET mode == server.cursor_mode
              grabbed == server.grabbed_view
          IN  /\ mode \in {INFINIDESK_CURSOR_MOVE, INFINIDESK_CURSOR_PAN,
                           INFINIDESK_CURSOR_DRAW} =>
                    /\ server' = [server EXCEPT
                                     !.cursor_mode = INFINIDESK_CURSOR_PASSTHROUGH,
                                     !.grabbed_view = NULL]
                    /\ UNCHANGED <<switcher, fault, stroke_alloc, now_ms>>
              /\ mode = INFINIDESK_CURSOR_MOVE =>
                    /\ Len(views') = Len(views)
                    /\ \A i \in DOMAIN views :
                          views'[i] = IF views[i].id = grabbed
                                      THEN [views[i] EXCEPT !.is_moving = FALSE]
                                      ELSE views[i]
                    /\ UNCHANGED <<canvas, drawing>>
              /\ mode = INFINIDESK_CURSOR_PAN =>
                    /\ canvas' = [canvas EXCEPT !.is_panning = FALSE]
                    /\ UNCHANGED <<views, drawing>>
              /\ mode = INFINIDESK_CURSOR_DRAW =>
                    /\ drawing' = drawing_stroke_end(drawing)
                    /\ ~drawing'.is_drawing
                    /\ drawing'.current_stroke.id = NULL
                    /\ UNCHANGED <<views, canvas>>
              /\ mode = INFINIDESK_CURSOR_PASSTHROUGH =>
                    UNCHANGED <<server, views, switcher, canvas, drawing, fault,
                                stroke_alloc, now_ms>>
      ]_vars

\* A release has ended the move of a view that the cursor had dragged away
\* from where it was mapped.
C10_Witness ==
    /\ lastOp = <<"button_release", INFINIDESK_CURSOR_MOVE>>
    /\ server.cursor_mode = INFINIDESK_CURSOR_PASSTHROUGH
    /\ server.grabbed_view = NULL
    /\ \E i \in DOMAIN views :
          /\ views[i].mapped
          /\ ~views[i].is_moving
          /\ views[i].x # views[i].grab_view_x

(***************************************************************************)
(* Claims about the canvas (checked under SpecCanvas).                     *)
(***************************************************************************)
\* C2: in every reachable state, after any sequence of zoom, set_scale, pan
\* and snap operations, ZOOM_MIN <= canvas.scale <= ZOOM_MAX.
C2_ScaleClamped ==
    /\ RLe(ZOOM_MIN, canvas.scale)
    /\ RLe(canvas.scale, ZOOM_MAX)

\* A zoom was clamped at the lower limit after the viewport had moved.
C2_Witness ==
    /\ lastOp[2] = "clamped"
    /\ canvas.scale = ZOOM_MIN
    /\ canvas.viewport_x # R(0)

\* C3: canvas_zoom(factor, f) keeps the canvas point under the screen point f
\* under f, also when the new scale is clamped; it changes nothing when the
\* clamped scale equals the old one; from viewport (0,0) and scale 1,
\* zoom(2, (400,300)) gives scale 2 and viewport (200,150).
C3_ZoomKeepsFocus ==
    /\ \A factor \in ZoomFactors, f \in FocusPoints :
          LET c2 == canvas_zoom(canvas, factor, f[1], f[2])
              under == screen_to_canvas(canvas, f[1], f[2])
          IN  /\ screen_to_canvas(c2, f[1], f[2]) = under
              /\ canvas_to_screen(c2, under[1], under[2]) = f
              /\ c2.scale = ClampScale(RMul(canvas.scale, factor))
              /\ c2.scale = canvas.scale => c2 = canvas
    /\ (canvas.viewport_x = R(0) /\ canvas.viewport_y = R(0) /\ canvas.scale = R(1))
          => LET c2 == canvas_zoom(canvas, R(2), R(400), R(300))
             IN  c2.scale = R(2) /\ c2.viewport_x = R(200) /\ c2.viewport_y = R(150)

\* The zoom of the example has run from the initial canvas.
C3_Witness ==
    /\ lastOp = <<"canvas_zoom", "scaled">>
    /\ canvas.scale = R(2)
    /\ canvas.viewport_x = R(200) /\ canvas.viewport_y = R(150)
    /\ steps = 1

(***************************************************************************)
(* Claims about the drawing layer (checked under SpecDrawing).             *)
(***************************************************************************)
Present == StrokeIds(drawing.strokes) \cup StrokeIds(drawing.redo_stack)

SameLists(d1, d2) ==
    d1.strokes = d2.strokes /\ d1.redo_stack = d2.redo_stack

\* C4 as stated: on any state with non-empty `strokes`, undo then redo leaves
\* both lists as they were; on any state with non-empty `redo_stack`, redo
\* then undo does.
C4_UndoRedoAnyState ==
    /\ drawing.strokes # <<>> =>
          SameLists(drawing_redo_last(drawing_undo_last(drawing)), drawing)
    /\ drawing.redo_stack # <<>> =>
          SameLists(drawing_undo_last(drawing_redo_last(drawing)), drawing)

\* C4 amended: the same, on states with no stroke in progress.
C4_UndoRedoIdle ==
    ~InProgress(drawing) =>
        /\ drawing.strokes # <<>> =>
              SameLists(drawing_redo_last(drawing_undo_last(drawing)), drawing)
        /\ drawing.redo_stack # <<>> =>
              SameLists(drawing_undo_last(drawing_redo_last(drawing)), drawing)

\* A redo has just undone an undo, with strokes left in both lists.
C4_Witness ==
    /\ lastOp = <<"redo_last", "moved">>
    /\ ~InProgress(drawing)
    /\ Len(drawing.strokes) >= 2
    /\ drawing.redo_stack # <<>>

\* C5 as stated: with no clear_all, every stroke ever committed is still in
\* `strokes` or in `redo_stack`.
C5_CommittedKept == committed \subseteq Present

\* C5 amended: every committed stroke is still in one of the lists, unless it
\* was in redo_stack when a later stroke was committed.
C5_CommittedKeptUnlessRedoCleared ==
    /\ (committed \ redo_dropped) \subseteq Present
    /\ Present \subseteq committed

\* A commit has dropped an undone stroke and later strokes were undone again.
C5_Witness ==
    /\ redo_dropped # {}
    /\ drawing.strokes # <<>>
    /\ drawing.redo_stack # <<>>

\* C6: every stroke in `strokes` and `redo_stack` has at least 2 points;
\* stroke_end discards a stroke in progress with fewer than 2 points, leaving
\* both lists unchanged, and commits it otherwise.
C6_CommittedHaveTwoPoints ==
    /\ \A i \in DOMAIN drawing.strokes : Len(drawing.strokes[i].points) >= 2
    /\ \A i \in DOMAIN drawing.redo_stack : Len(drawing.redo_stack[i].points) >= 2
    /\ InProgress(drawing) =>
          LET d2 == drawing_stroke_end(drawing)
          IN  /\ ~d2.is_drawing /\ d2.current_stroke.id = NULL
              /\ IF Len(drawing.current_stroke.points) < 2
                 THEN SameLists(d2, drawing)
                 ELSE d2.strokes = Append(drawing.strokes, drawing.current_stroke)

\* A one-point stroke was discarded while both lists held strokes.
C6_Witness ==
    /\ lastOp = <<"stroke_end", "discarded">>
    /\ drawing.strokes # <<>>
    /\ drawing.redo_stack # <<>>

SqDist(p, q) ==
    LET dx == RSub(p[1], q[1])
        dy == RSub(p[2], q[2])
    IN  RAdd(RMul(dx, dx), RMul(dy, dy))

FarEnough(p, q) == RLe(R(4), SqDist(p, q))

Spaced(points) ==
    \A i \in 1 .. Len(points) - 1 : FarEnough(points[i], points[i + 1])

C9_UndoDiscardsInProgress ==
    InProgress(drawing) =>
        LET d2 == drawing_undo_last(drawing)
        IN  /\ ~d2.is_drawing
            /\ d2.current_stroke.id = NULL
            /\ SameLists(d2, drawing)

\* An undo has discarded a stroke in progress while both lists held strokes.
C9_Witness ==
    /\ lastOp = <<"undo_last", "in_progress">>
    /\ ~drawing.is_drawing
    /\ drawing.strokes # <<>>
    /\ drawing.redo_stack # <<>>

(***************************************************************************)
(* Claims about the input router's modes (checked under Spec).             *)
(***************************************************************************)
\* C11: cursor motion handling never changes cursor_mode or grabbed_view, so
\* when a press has set cursor_mode to MOVE, PAN or DRAW and only cursor
\* motion has followed it, the release finds cursor_mode with the value that
\* press set.
C11_MotionKeepsMode ==
    [][ /\ lastOp'[1] = "cursor_motion" =>
              /\ server'.cursor_mode = server.cursor_mode
              /\ server'.grabbed_view = server.grabbed_view
        /\ (lastOp'[1] = "button_release" /\ press_mode # NoPress) =>
              /\ server.cursor_mode = press_mode[1]
              /\ server.grabbed_view = press_mode[2]
              /\ lastOp'[2] = press_mode[1] ]_vars

\* A move grab whose press was followed by motion that dragged the view.
C11_Witness ==
    /\ lastOp = <<"cursor_motion", INFINIDESK_CURSOR_MOVE>>
    /\ press_mode[1] = INFINIDESK_CURSOR_MOVE
    /\ press_mode[2] # NULL
    /\ server.grabbed_view = press_mode[2]
    /\ \E i \in DOMAIN views :
          /\ views[i].id = press_mode[2]
          /\ views[i].x # views[i].grab_view_x

\* The four parts of the press priority over one step, where `over` says
\* what "a press over the UI panel" is taken to mean.
PressPriority(over) ==
    LET button == lastOp'[3]
        mode == server.cursor_mode
        mode2 == server'.cursor_mode
        begun == /\ drawing'.is_drawing
                 /\ drawing'.current_stroke.id = stroke_alloc'
                 /\ stroke_alloc' = stroke_alloc + 1
    IN  /\ lastOp'[1] = "button_press" =>
              /\ (drawing.drawing_mode /\ button = BTN_LEFT /\ over) =>
                    /\ mode2 = mode
                    /\ ~begun
                    /\ stroke_alloc' = stroke_alloc
              /\ (drawing.drawing_mode /\ button = BTN_LEFT /\ ~over) =>
                    /\ mode2 = INFINIDESK_CURSOR_DRAW
                    /\ begun
                    /\ server'.grabbed_view = server.grabbed_view
              /\ (mode2 = INFINIDESK_CURSOR_MOVE /\ mode # mode2) =>
                    /\ server.super_pressed
                    /\ button = BTN_LEFT
                    /\ ~drawing.drawing_mode
                    /\ server'.grabbed_view \in MappedIds(views)
              /\ (mode2 = INFINIDESK_CURSOR_PAN /\ mode # mode2) =>
                    /\ server.super_pressed
                    /\ button = BTN_RIGHT
        /\ (lastOp'[1] # "button_press"
            /\ mode2 \in {INFINIDESK_CURSOR_MOVE, INFINIDESK_CURSOR_PAN,
                          INFINIDESK_CURSOR_DRAW}) => mode2 = mode

\* C12: with drawing_mode on, a left press over the UI panel goes to the UI
\* click handler, begins no stroke and leaves cursor_mode unchanged; any other
\* left press in drawing mode enters DRAW and begins a stroke whatever the
\* modifier and the view under the cursor, never MOVE; MOVE is entered only by
\* modifier+left on a view outside drawing mode, PAN only by modifier+right.
C12_PressPriority ==
    [][ PressPriority(lastOp'[1] = "button_press" /\ lastOp'[4]) ]_vars

\* A left press on the panel's padding, with drawing mode on, has begun a
\* stroke and entered DRAW.
C12_Witness ==
    /\ lastOp = <<"button_press", INFINIDESK_CURSOR_DRAW, BTN_LEFT, TRUE>>
    /\ server.cursor_mode = INFINIDESK_CURSOR_DRAW
    /\ drawing.is_drawing

\* C13: handle_unmap clears the view's is_moving, clears the grab and returns
\* cursor_mode to PASSTHROUGH when the view is grabbed_view, and resets the
\* view's map_animation to 0; unmapping a view that is not grabbed_view
\* leaves cursor_mode and grabbed_view unchanged.
C13_UnmapClearsView ==
    [][ lastOp'[1] = "handle_unmap" =>
          LET id == lastOp'[3]
              view == ViewOf(views', id)
          IN  /\ id \in MappedIds(views)
              /\ ~view.mapped
              /\ ~view.is_moving
              /\ view.map_animation = R(0)
              /\ server.grabbed_view = id =>
                    /\ server'.grabbed_view = NULL
                    /\ server'.cursor_mode = INFINIDESK_CURSOR_PASSTHROUGH
              /\ server.grabbed_view # id =>
                    /\ server'.grabbed_view = server.grabbed_view
                    /\ server'.cursor_mode = server.cursor_mode ]_vars

\* The grabbed view, fully faded in, has just been unmapped during its move.
C13_Witness ==
    /\ lastOp[1] = "handle_unmap"
    /\ lastOp[2] = "grabbed"
    /\ lastOp[4] = R(1)
    /\ ViewOf(views, lastOp[3]).map_animation = R(0)
    /\ ~ViewOf(views, lastOp[3]).is_moving
    /\ server.cursor_mode = INFINIDESK_CURSOR_PASSTHROUGH
    /\ BTN_LEFT \in pressed

\* C14: in every reachable state, cursor_mode = PASSTHROUGH implies
\* grabbed_view = NULL, whatever the interleaving of presses and releases of
\* different buttons, key events, and view map, unmap and destroy.
C14_PassthroughHasNoGrab ==
    server.cursor_mode = INFINIDESK_CURSOR_PASSTHROUGH => server.grabbed_view = NULL

\* A move was overridden by a pan and the right button's release ended the
\* pan: passthrough, no grab, the left button still held and the view still
\* marked as moving.
C14_Witness ==
    /\ lastOp = <<"button_release", INFINIDESK_CURSOR_PAN>>
    /\ server.cursor_mode = INFINIDESK_CURSOR_PASSTHROUGH
    /\ server.grabbed_view = NULL
    /\ BTN_LEFT \in pressed
    /\ \E i \in DOMAIN views : views[i].is_moving

(***************************************************************************)
(* Claims about the view list and the switcher (checked under Spec).       *)
(***************************************************************************)
Order(vs) == [i \in DOMAIN vs |-> vs[i].id]

\* C15: view_focus never changes the order of the view list; view_raise(v)
\* moves v to index 0 and keeps the relative order of the other views; the
\* list holds each live view exactly once.
C15_FocusRaiseOrder ==
    /\ ViewIds(views) = live
    /\ Cardinality(ViewIds(views)) = Len(views)
    /\ \A id \in ViewIds(views) \cup {NULL} :
          Order(view_focus(World, id).views) = Order(views)
    /\ \A id \in ViewIds(views) :
          LET raised == Order(view_raise(World, id).views)
          IN  /\ raised[1] = id
              /\ Tail(raised) = SelectSeq(Order(views), LAMBDA v : v # id)
              /\ ViewOf(view_raise(World, id).views, id) = ViewOf(views, id)

\* The oldest of three views has been raised: it is at the head of the list,
\* focused, and the other two keep their order (newest first).
C15_Witness ==
    /\ Order(views) = <<1, 3, 2>>
    /\ views[1].focused
    /\ live = {1, 2, 3}

\* C16: switcher_start on an empty view list changes nothing (an inactive
\* switcher stays inactive); otherwise it sets active and dirty and selects
\* the second view of the list when there are at least two views, the only
\* view when there is one, and changes nothing else.
C16_SwitcherStart ==
    LET w2 == switcher_start(World)
    IN  IF views = <<>>
        THEN /\ w2 = World
             /\ ~switcher.active => ~w2.switcher.active
        ELSE /\ w2.switcher.active
             /\ w2.switcher.dirty
             /\ w2.switcher.selected =
                    IF Len(views) >= 2 THEN views[2].id ELSE views[1].id
             /\ w2 = [World EXCEPT !.switcher.active = TRUE,
                                   !.switcher.dirty = TRUE,
                                   !.switcher.selected = w2.switcher.selected]

\* The switcher has just been started over three views, after a frame had
\* drawn an earlier overlay clean: it is active and dirty again and selects
\* the second view.
C16_Witness ==
    /\ lastOp[1] = "switcher_start"
    /\ Len(views) >= 2
    /\ switcher.active
    /\ switcher.dirty
    /\ switcher.selected = views[2].id
    /\ switcher.texture = TEXTURE

RECURSIVE NextTimes(_, _)
NextTimes(w, k) == IF k = 0 THEN w ELSE NextTimes(switcher_next(w), k - 1)

\* C17: while the switcher is active over n >= 1 views, switcher_next and
\* switcher_prev move the selection by one position, wrapping at the ends of
\* the list, and set dirty; next after prev and prev after next restore the
\* selection, and n calls of next return to the starting selection.  While
\* the switcher is inactive, next and prev change nothing.
C17_NextPrevCycle ==
    LET n == Len(views)
        sel == switcher.selected
        nx == switcher_next(World)
        pv == switcher_prev(World)
    IN  /\ ~switcher.active => (nx = World /\ pv = World)
        /\ (switcher.active /\ sel \in ViewIds(views)) =>
              LET i == IndexOf(views, sel)
              IN  /\ nx = [World EXCEPT
                             !.switcher.selected = views[(i % n) + 1].id,
                             !.switcher.dirty = TRUE]
                  /\ pv = [World EXCEPT
                             !.switcher.selected = views[((i + n - 2) % n) + 1].id,
                             !.switcher.dirty = TRUE]
                  /\ switcher_prev(nx).switcher.selected = sel
                  /\ switcher_next(pv).switcher.selected = sel
                  /\ NextTimes(World, n).switcher.selected = sel
                  /\ \A k \in 1..(n - 1) : NextTimes(World, k).switcher.selected # sel

\* Over three views the selection, started at the second view and stepped
\* forward, has wrapped from the last view to the first.
C17_Witness ==
    /\ lastOp = <<"switcher_next", "">>
    /\ switcher.active
    /\ switcher.dirty
    /\ Len(views) = 3
    /\ switcher.selected = views[1].id

\* Viewport scales at which the confirm is evaluated; the handlers of Spec
\* leave the scale at 1, and canvas_zoom reaches the others.
ConfirmScales == { R(1), <<1, 2>>, R(2) }

\* switcher_confirm on w selects view id: a snap towards the view's canvas
\* centre minus half the screen over the scale, focus, raise, overlay closed.
ConfirmGoesTo(w, id) ==
    LET w2 == switcher_confirm(w, now_ms)
        view == ViewOf(w.views, id)
    IN  /\ w2.canvas.snap_anim_active
        /\ w2.canvas.snap_anim_start_ms = now_ms
        /\ w2.canvas.snap_start_x = w.canvas.viewport_x
        /\ w2.canvas.snap_start_y = w.canvas.viewport_y
        /\ w2.canvas.snap_target_x =
              RSub(RAdd(view.x, RDiv(R(view.geo.width), R(2))),
                   RDiv(RDiv(R(Usable.width), R(2)), w.canvas.scale))
        /\ w2.canvas.snap_target_y =
              RSub(RAdd(view.y, RDiv(R(view.geo.height), R(2))),
                   RDiv(RDiv(R(Usable.height), R(2)), w.canvas.scale))
        /\ w2.server.focused_surface = id
        /\ ViewOf(w2.views, id).focused
        /\ Order(w2.views) = <<id>> \o SelectSeq(Order(w.views), LAMBDA v : v # id)
        /\ ~w2.switcher.active
        /\ w2.switcher.selected = NULL
        /\ w2.switcher.texture = NULL

\* C18: switcher_confirm, while active with a selected view, starts a snap
\* whose target is that view's canvas centre minus (screen_w/2, screen_h/2)
\* over the scale, focuses the view and raises it to the head of the list,
\* and leaves the switcher inactive with no selection and no texture; with
\* views [A, B, C], start selects B, next selects C and confirm goes to C.
\* switcher_cancel deactivates the switcher without changing the viewport,
\* the focus or the view order.
C18_ConfirmCancel ==
    \A sc \in ConfirmScales :
        LET w == [World EXCEPT !.canvas.scale = sc]
            started == switcher_start(w)
            stepped == switcher_next(started)
            cancelled == switcher_cancel(w)
        IN  /\ (switcher.active /\ switcher.selected \in ViewIds(views)) =>
                  ConfirmGoesTo(w, switcher.selected)
            /\ Len(views) = 3 =>
                  /\ started.switcher.selected = views[2].id
                  /\ stepped.switcher.selected = views[3].id
                  /\ ConfirmGoesTo(stepped, views[3].id)
            /\ ~cancelled.switcher.active
            /\ cancelled.switcher.selected = NULL
            /\ cancelled.switcher.texture = NULL
            /\ cancelled = [w EXCEPT !.switcher = cancelled.switcher]
            /\ cancelled.switcher.dirty = switcher.dirty

\* Three views were created, the switcher started, stepped once and
\* confirmed: the oldest view, last in the list, is now at its head and
\* focused, and the viewport is snapping to centre it.
C18_Witness ==
    /\ lastOp = <<"switcher_confirm", "">>
    /\ Order(views) = <<1, 3, 2>>
    /\ server.focused_surface = 1
    /\ canvas.snap_anim_active
    /\ canvas.snap_target_x = RSub(RAdd(views[1].x, R(100)), R(400))
    /\ canvas.snap_target_y = RSub(RAdd(views[1].y, R(50)), R(300))
    /\ switcher = [switcher_init EXCEPT !.dirty = switcher.dirty]

(***************************************************************************)
(* Claims about the snap animation (checked under SpecSnap).               *)
(***************************************************************************)
CloserToTarget(c, c2) ==
    /\ RLe(RAbs(RSub(c.snap_target_x, c2.viewport_x)),
           RAbs(RSub(c.snap_target_x, c.viewport_x)))
    /\ RLe(RAbs(RSub(c.snap_target_y, c2.viewport_y)),
           RAbs(RSub(c.snap_target_y, c.viewport_y)))

\* C19: while a snap is active, each frame tick moves the viewport from the
\* start towards the target; the first tick at or after start + 800 ms
\* leaves the viewport equal to the target and snap_anim_active false, and an
\* earlier tick leaves the snap active; if frames keep arriving, every
\* started snap eventually completes.
C19_SnapCompletes ==
    /\ [][ (lastOp'[1] = "frame" /\ canvas.snap_anim_active) =>
              /\ CloserToTarget(canvas, canvas')
              /\ canvas'.snap_target_x = canvas.snap_target_x
              /\ canvas'.snap_target_y = canvas.snap_target_y
              /\ IF now_ms' >= canvas.snap_anim_start_ms + CANVAS_SNAP_DURATION_MS
                 THEN /\ canvas'.viewport_x = canvas.snap_target_x
                      /\ canvas'.viewport_y = canvas.snap_target_y
                      /\ ~canvas'.snap_anim_active
                 ELSE /\ canvas'.snap_anim_active
                      /\ <<canvas'.viewport_x, canvas'.viewport_y>> #
                            <<canvas.snap_target_x, canvas.snap_target_y>>
                         \/ <<canvas.snap_start_x, canvas.snap_start_y>> =
                            <<canvas.snap_target_x, canvas.snap_target_y>> ]_vars
    /\ (canvas.snap_anim_active ~> ~canvas.snap_anim_active)

\* A snap that moved the viewport has been completed by a frame 800 ms or
\* more after its start.
C19_Witness ==
    /\ lastOp = <<"frame", "completed">>
    /\ ~canvas.snap_anim_active
    /\ canvas.viewport_x = canvas.snap_target_x
    /\ canvas.viewport_y = canvas.snap_target_y
    /\ canvas.snap_start_x # canvas.snap_target_x
    /\ now_ms >= canvas.snap_anim_start_ms + CANVAS_SNAP_DURATION_MS

\* The layout of the worked example: two 100x100 views, V1 at (0,0) and V2 at
\* (300,0), whose centres (50,50) and (350,50) have the centroid (200,50).
GatherExample == { <<R(0), R(0), 100, 100>>, <<R(300), R(0), 100, 100>> }

\* The last step was a gather of the example layout with minimum_gap 20.
IsGatherExample(op) ==
    /\ op[1] = "views_gather"
    /\ op[2] = R(20)
    /\ Len(op[3]) = 2
    /\ { op[3][1], op[3][2] } = GatherExample

\* The viewport the snap ends at shows the canvas point (200,50) at the
\* centre of the screen.
SnapCentresExample ==
    /\ canvas.snap_anim_active
    /\ canvas.snap_anim_start_ms = now_ms
    /\ canvas.snap_start_x = canvas.viewport_x
    /\ canvas.snap_start_y = canvas.viewport_y
    /\ canvas.snap_target_x = RSub(R(200), RDiv(R(Usable.width \div 2), canvas.scale))
    /\ canvas.snap_target_y = RSub(R(50), RDiv(R(Usable.height \div 2), canvas.scale))

\* C20 (as stated): one gather with minimum_gap 20 on two 100x100 views, V1 at
\* (0,0) and V2 at (300,0), leaves V1.x = 80 and V2.x = 220 and starts a snap
\* centring on their centroid (200,50).
C20_GatherExampleAsStated ==
    IsGatherExample(lastOp) =>
        /\ { <<views[i].x, views[i].y>> : i \in DOMAIN views } =
               { <<R(80), R(0)>>, <<R(220), R(0)>> }
        /\ SnapCentresExample

\* C20 (amended): the same gather leaves V1.x = 75 and V2.x = 225 (each centre
\* at half its distance 150 from the centroid, which is more than the minimum
\* 70), both y unchanged, V1 still the view on the left, and starts a snap
\* centring on (200,50).
C20_GatherExample ==
    IsGatherExample(lastOp) =>
        /\ \A i \in DOMAIN views :
               /\ views[i].y = R(0)
               /\ views[i].x = IF lastOp[3][i][1] = R(0) THEN R(75) ELSE R(225)
        /\ SnapCentresExample

\* C20 witness: the gather of the example layout has just run.
C20_Witness ==
    /\ IsGatherExample(lastOp)
    /\ steps = 1
    /\ canvas.scale = R(1)
    /\ canvas.snap_anim_active
    /\ canvas.snap_target_x = R(-200)
    /\ canvas.snap_target_y = R(-250)
    /\ Boxes(views) = << <<R(75), R(0), 100, 100>>, <<R(225), R(0), 100, 100>> >>

\* The views as they were before the gather that lastOp records: the gather
\* writes x and y only.
PreViews ==
    [i \in DOMAIN views |-> [views[i] EXCEPT !.x = lastOp[3][i][1], !.y = lastOp[3][i][2]]]

SqLen(v) == RAdd(RMul(v[1], v[1]), RMul(v[2], v[2]))

\* v1 is a positive multiple of v0, or both are the zero vector.
SameDirection(v0, v1) ==
    /\ RSub(RMul(v0[1], v1[2]), RMul(v0[2], v1[1])) = R(0)
    /\ IF SqLen(v0) = R(0) THEN SqLen(v1) = R(0)
       ELSE RLt(R(0), RAdd(RMul(v0[1], v1[1]), RMul(v0[2], v1[2])))

\* |v| < 1e-3, as |v|^2 < 1e-6 on the numerator and denominator of |v|^2.
WithinEpsilon(v) == SqLen(v)[1] <= (SqLen(v)[2] - 1) \div 1000000

Overlap(a, b) ==
    /\ RLt(a.x, RAdd(b.x, R(b.geo.width)))
    /\ RLt(b.x, RAdd(a.x, R(a.geo.width)))
    /\ RLt(a.y, RAdd(b.y, R(b.geo.height)))
    /\ RLt(b.y, RAdd(a.y, R(a.geo.height)))

NoOverlap(vs) ==
    \A i, j \in DOMAIN vs : i # j => ~Overlap(vs[i], vs[j])

\* C22: if no two view rectangles overlap before views_gather, none overlap
\* after it.
C22_GatherKeepsNonOverlap ==
    (lastOp[1] = "views_gather" /\ NoOverlap(PreViews)) => NoOverlap(views)

\* C22 witness: a gather of three views in a row that did not overlap before
\* it.
C22_Witness ==
    /\ lastOp[1] = "views_gather"
    /\ Len(views) = 3
    /\ NoOverlap(PreViews)
    /\ \A i \in DOMAIN views : views[i].y = R(0)

\* The layout g is the layout vs moved as a whole: every view has the same
\* offset from its old place.
Translated(vs, g) ==
    \A i \in DOMAIN vs :
        /\ RSub(g[i].x, vs[i].x) = RSub(g[1].x, vs[1].x)
        /\ RSub(g[i].y, vs[i].y) = RSub(g[1].y, vs[1].y)

\* Every view is at its minimum distance from the centroid of the layout or
\* has its centre within 1e-3 of it.
AllClamped(vs, minimum_gap) ==
    LET c == centroid(vs)
    IN  \A i \in DOMAIN vs :
            LET v == vec(vs[i], c)
                d == current_distance(v[1], v[2])
            IN  \/ WithinEpsilon(v)
                \/ d = min_distance(vs[i].geo, v[1], v[2], d, minimum_gap)

\* C23: repeated gathers reach positions that a further gather leaves alone,
\* where every view is at its minimum-distance clamp or at the centroid.
\* Stated on one gather of a reachable layout: a layout the gather leaves
\* alone has every view clamped or at the centroid, and a gather that keeps
\* the layout's shape (all the views move by the same offset) moves nothing.
\* views_gather depends on the views' places relative to each other only, so
\* a gather that shifts the whole layout is followed by the same shift at
\* every later gather and the positions never settle.
C23_GatherReachesFixedSet ==
    \A minimum_gap \in GatherGaps :
        (views # <<>> /\ ExactDistances(views)) =>
            LET g == views_gather(World, minimum_gap, now_ms).views
            IN  /\ g = views => AllClamped(views, minimum_gap)
                /\ Translated(views, g) => g = views

\* C23 witness: two gathers have run and the next one (gap 20) would move
\* both views of the layout by the same non-zero offset.
C23_Witness ==
    /\ lastOp[1] = "views_gather"
    /\ steps = 2
    /\ Len(views) = 2
    /\ ExactDistances(views)
    /\ LET g == views_gather(World, R(20), now_ms).views
       IN  Translated(views, g) /\ g # views

(***************************************************************************)
(* Claims about the scroll axis and focus-follows-mouse (checked under     *)
(* SpecScroll).                                                            *)
(***************************************************************************)
\* C24: with the modifier not held, a scroll event during a scroll-pan pans
\* the canvas (vertical by (0, delta), horizontal by (delta, 0)) and is not
\* forwarded, whatever is under the cursor; outside a scroll-pan a scroll
\* over a view is forwarded and leaves viewport and scroll_panning as they
\* were, and a scroll over empty canvas sets scroll_panning and pans.
C24_ScrollPan ==
    [][ (lastOp'[1] = "cursor_axis" /\ ~server.super_pressed) =>
          LET panned == IF lastOp'[3] = WL_POINTER_AXIS_VERTICAL_SCROLL
                        THEN canvas_pan_delta(canvas, R(0), lastOp'[4])
                        ELSE canvas_pan_delta(canvas, lastOp'[4], R(0))
          IN  IF server.scroll_panning
              THEN /\ canvas' = panned
                   /\ lastOp'[2] # "forward"
              ELSE IF lastOp'[5] # NULL
              THEN /\ lastOp'[2] = "forward"
                   /\ canvas' = canvas
                   /\ ~server'.scroll_panning
              ELSE /\ server'.scroll_panning
                   /\ canvas' = panned
                   /\ lastOp'[2] # "forward" ]_vars

\* C24 witness: a scroll event has continued a scroll-pan with a view under
\* the cursor.
C24_Witness ==
    /\ lastOp[1] = "cursor_axis"
    /\ lastOp[2] = "continue"
    /\ lastOp[5] # NULL
    /\ server.scroll_panning
    /\ canvas.viewport_y # R(0)


\* C25: every scroll event received while a scroll-pan gesture is active,
\* those handled as a zoom because the modifier is held included, re-arms the
\* idle timer to expire SCROLL_PAN_TIMEOUT_MS after the event, and the timer
\* callback changes nothing but scroll_panning (and the timer it disarms).
C25_TimerRearmedByEveryScroll ==
    [][ /\ (lastOp'[1] = "cursor_axis" /\ server.scroll_panning) =>
              /\ server'.scroll_panning
              /\ server'.scroll_pan_expiry = now_ms + SCROLL_PAN_TIMEOUT_MS
        /\ lastOp'[1] = "scroll_pan_timer" =>
              /\ ~server'.scroll_panning
              /\ server' = [server EXCEPT !.scroll_panning = FALSE,
                                          !.scroll_pan_expiry = 0]
              /\ UNCHANGED <<views, canvas, drawing, switcher>> ]_vars

\* A scroll handled as a zoom has just been received during a scroll-pan
\* gesture, and the timer is due less than SCROLL_PAN_TIMEOUT_MS after it.
C25_Witness ==
    /\ lastOp[1] = "cursor_axis"
    /\ lastOp[2] = "zoom"
    /\ server.scroll_panning
    /\ server.scroll_pan_expiry < now_ms + SCROLL_PAN_TIMEOUT_MS

\* Under the event loop's fairness a scroll-pan gesture always ends.
ScrollPanEnds == server.scroll_panning ~> ~server.scroll_panning


\* The views' focus as the seat and the views record it.
FocusOf(w) == <<w.server.focused_surface,
                { w.views[i].id : i \in { j \in DOMAIN w.views : w.views[j].focused } }>>

\* C26: focus-follows-mouse.  In PASSTHROUGH a motion that ends over a mapped
\* view and not on a resize edge gives that view (server_view_at's answer, the
\* topmost mapped view under the cursor) the keyboard focus, unless a
\* scroll-pan is active; during a scroll-pan, and in MOVE, PAN and DRAW, a
\* motion leaves the focus where it was.
C26_FocusFollowsMouse ==
    \A p \in CursorPoints, hit \in MappedIds(views) \cup {NULL}, edges \in BOOLEAN :
        LET w0 == [World EXCEPT !.server.cursor_x = p[1], !.server.cursor_y = p[2]]
            w2 == cursor_process_motion(w0, hit, edges)
            mode == server.cursor_mode
        IN  (~fault /\ ~w2.fault) =>
              /\ ( /\ mode = INFINIDESK_CURSOR_PASSTHROUGH
                   /\ hit # NULL /\ ~edges /\ ~server.scroll_panning )
                    => FocusOf(w2) = <<hit, {hit}>>
              /\ ( \/ server.scroll_panning
                   \/ mode \in { INFINIDESK_CURSOR_MOVE, INFINIDESK_CURSOR_PAN,
                                 INFINIDESK_CURSOR_DRAW } )
                    => FocusOf(w2) = FocusOf(World)

\* The cursor has moved in PASSTHROUGH during a scroll-pan while a mapped view
\* other than the focused one exists, and the focus is still where it was.
C26_Witness ==
    /\ lastOp[1] = "cursor_motion"
    /\ lastOp[2] = INFINIDESK_CURSOR_PASSTHROUGH
    /\ server.scroll_panning
    /\ server.focused_surface # NULL
    /\ MappedIds(views) \ {server.focused_surface} # {}


\* The first view in front-to-back order whose surface is mapped, if any.
TopmostMapped(vs) ==
    IF MappedIds(vs) = {} THEN NULL
    ELSE vs[CHOOSE i \in DOMAIN vs :
               vs[i].mapped /\ \A j \in 1..(i - 1) : ~vs[j].mapped].id

\* C27: the close binding sends the close request to the topmost mapped view,
\* never to an unmapped one, and to no view when none is mapped.
C27_CloseTopmostMapped ==
    [][ lastOp'[1] = "close_window" => lastOp'[2] = TopmostMapped(views) ]_vars

\* The close request has gone to a view that is not mapped while a mapped
\* view exists behind it.
C27_Witness ==
    /\ lastOp[1] = "close_window"
    /\ lastOp[2] # NULL
    /\ lastOp[2] \notin MappedIds(views)
    /\ MappedIds(views) # {}


\* The first view of the list that view_render draws with a content
\* rectangle, at output scale 1, that has the point; NULL when none has.
RenderedAt(vs, c, lx, ly) ==
    LET under == { i \in DOMAIN vs :
                     LET box == view_render(vs[i], c, R(1))
                     IN  box.drawn /\ InBox(box, lx, ly) }
    IN  IF under = {} THEN NULL
        ELSE vs[CHOOSE i \in under : \A j \in under : i <= j].id

\* C28: hit testing matches rendering exactly: server_view_at answers with
\* the topmost mapped view whose rendered content rectangle has the point,
\* and with no view when no rendered content rectangle has it, whatever the
\* canvas, the entrance animation and the geometry offset.
C28_HitMatchesRender ==
    lastOp[1] = "server_view_at" =>
        lastOp[3] = RenderedAt(views, canvas, lastOp[2][1], lastOp[2][2])

\* A view in its entrance animation is hit at a point where it is not drawn.
C28_Witness ==
    /\ lastOp[1] = "server_view_at"
    /\ lastOp[3] # NULL
    /\ RLt(ViewOf(views, lastOp[3]).map_animation, R(1))
    /\ RenderedAt(views, canvas, lastOp[2][1], lastOp[2][2]) # lastOp[3]


\* What a frame draws of the views: for each in list order its content
\* rectangle at output scale 1 and its opacity.
RenderOps(w) ==
    [i \in DOMAIN w.views |->
        <<w.views[i].id, view_render(w.views[i], w.canvas, R(1)),
          w.views[i].map_animation>>]

\* C29: frame determinism.  Two runs with the same events and the same
\* per-frame clock samples draw the same: from any state, a surface mapped
\* now or one clock tick later, with the next frame sampled at the same time
\* in both runs, gives that frame the same render operations.
C29_FrameDeterminism ==
    \A id \in ViewIds(views) \ MappedIds(views) :
        LET frame_ms == now_ms + 2 * ClockTickMs
            early == handle_map(World, id, now_ms)
            late  == handle_map(World, id, now_ms + ClockTickMs)
        IN  (~fault /\ steps + 2 <= MaxEvents
                /\ frame_ms <= MaxClockTicks * ClockTickMs) =>
                RenderOps(output_render_custom(early, frame_ms))
                    = RenderOps(output_render_custom(late, frame_ms))

\* A frame has drawn a view part of the way through its entrance animation,
\* which started at a clock value read when the surface was mapped.
C29_Witness ==
    /\ lastOp[1] = "frame"
    /\ \E i \in DOMAIN views :
          /\ views[i].mapped
          /\ RLt(R(0), views[i].map_animation)
          /\ RLt(views[i].map_animation, R(1))
          /\ views[i].map_anim_start_ms % (2 * ClockTickMs) # 0


\* The keybind lines of the file's [keybinds] section that are well formed,
\* in file order: the section runs from its header to the next header of
\* another section.
InKeybinds(file, i) ==
    /\ \E h \in 1..(i - 1) : file[h].kind = "section" /\ file[h].name = "keybinds"
    /\ \A h \in 1..(i - 1) :
          (file[h].kind = "section" /\ file[h].name # "keybinds")
              => \A k \in 1..(h - 1) :
                     ~(file[k].kind = "section" /\ file[k].name = "keybinds")

WellFormed(line) ==
    /\ line.kind = "bind" /\ line.eq /\ line.value # <<>>
    /\ \A i \in 1..(Len(line.chord) - 1) : line.chord[i] \in modifier_map
    /\ line.chord # <<>> /\ line.chord[Len(line.chord)] \in KeysymNames

RECURSIVE ValidBinds(_, _)
ValidBinds(file, i) ==
    IF i > Len(file) THEN <<>>
    ELSE (IF InKeybinds(file, i) /\ WellFormed(file[i])
          THEN << [ modifiers |-> { file[i].chord[k] : k \in 1..(Len(file[i].chord) - 1) },
                    key |-> file[i].chord[Len(file[i].chord)],
                    type |-> IF file[i].value[1] = "exec:" THEN "KEYBIND_EXEC"
                             ELSE "KEYBIND_ACTION",
                    value |-> file[i].value[2] ] >>
          ELSE <<>>) \o ValidBinds(file, i + 1)

HasKeybindsSection(file) ==
    \E i \in DOMAIN file : file[i].kind = "section" /\ file[i].name = "keybinds"

LoadFails(env) == \E f \in DOMAIN env : ~env[f]

\* C30: when the load fails as a whole the server runs with output scale 1.0
\* and the default keybinds; when the file loads without a [keybinds]
\* section the default keybinds are installed; with a section, its well
\* formed lines are all installed, the malformed ones skipped.
C30_ConfigDefaults ==
    lastOp[1] = "config_load" =>
        LET env == lastOp[2]
            file == lastOp[3]
        IN  /\ LoadFails(env) => /\ server.output_scale = R(1)
                                 /\ server.keybinds = config_set_default_keybinds
            /\ (~LoadFails(env) /\ ~HasKeybindsSection(file))
                  => server.keybinds = config_set_default_keybinds
            /\ (~LoadFails(env) /\ HasKeybindsSection(file))
                  => server.keybinds = ValidBinds(file, 1)

\* A file that loads: the last scale of the file, and the section's well
\* formed lines or the defaults.
ConfigLoadedFile ==
    (lastOp[1] = "config_load" /\ ~LoadFails(lastOp[2])) =>
        /\ server.output_scale = parse_scale(lastOp[3], R(1))
        /\ server.keybinds = IF HasKeybindsSection(lastOp[3])
                             THEN ValidBinds(lastOp[3], 1)
                             ELSE config_set_default_keybinds

\* The load has failed and the server has no keybind at all.
C30_Witness ==
    /\ lastOp[1] = "config_load"
    /\ LoadFails(lastOp[2])
    /\ server.keybinds = <<>>
    /\ server.output_scale = R(1)


\* C31: every listener a component registered on a protocol object has been
\* removed by the time that object is destroyed: no listener stays linked in
\* the signal of a destroyed toplevel, output, keyboard, layer surface or
\* server-level object, also after server_finish.
DestroyedObjects ==
    server.destroyed \cup { <<"view", id>> : id \in (1..server.next_view_id) \ live }

Dangling == { l \in server.listeners : <<l[1], l[2]>> \in DestroyedObjects }

C31_ListenersRemoved == Dangling = {}

\* C31, the per-object part: the wrappers of views, outputs, keyboards and
\* layer surfaces hold exactly the listeners of the wrappers that exist, so
\* that every destroy handler finds its listeners linked and removes them once.
ObjectListeners ==
    ViewListeners(views)
      \cup UNION { Listeners("output", o, OutputSignals) : o \in OutputIds(World) }
      \cup UNION { Listeners("keyboard", k, KeyboardSignals) : k \in server.keyboards }
      \cup UNION { Listeners("layer", l, LayerSignals) : l \in LayerIds(World) }

PerObjectListenersBalanced ==
    server.listeners = ServerListeners \cup ObjectListeners

\* server_finish has run on a server that had a view, and the listeners of
\* server_init are still linked in the destroyed backend, seat and shells.
C31_Witness ==
    /\ lastOp[1] = "server_finish"
    /\ server.next_view_id > 0
    /\ views = <<>>
    /\ ~fault
    /\ <<"backend", 0, "new_output">> \in Dangling


\* C32: a step in which an allocation fails inside drawing_stroke_begin,
\* drawing_stroke_add_point or view_create leaves the compositor's state as it
\* was before the operation: the stroke in progress, is_drawing, the cursor
\* mode, the view list and next_view_id.
AtomicState ==
    <<drawing.current_stroke, drawing.is_drawing, drawing.strokes, server.cursor_mode,
      views, server.next_view_id>>

C32_AllocFailureAtomic ==
    [][lastOp'[1] = "alloc_failed" => AtomicState' = AtomicState]_vars

\* The same for the failures that do keep it: drawing_stroke_add_point, and
\* view_create when it is the view's own calloc that fails.
AllocFailureAtomicElsewhere ==
    [][(lastOp'[1] = "alloc_failed"
          /\ (lastOp'[2] = "drawing_stroke_add_point" \/ lastOp'[3] = "view"))
        => AtomicState' = AtomicState]_vars

\* A press whose stroke could not be allocated has left the cursor in DRAW
\* mode with no stroke in progress.
C32_Witness ==
    /\ lastOp[1] = "alloc_failed"
    /\ lastOp[2] = "drawing_stroke_begin"
    /\ server.cursor_mode = INFINIDESK_CURSOR_DRAW
    /\ ~drawing.is_drawing


\* C33: on every output the stored usable area is the full output box shrunk,
\* edge by edge, by the positive exclusive zones of exactly the layer surfaces
\* of that output that are mapped now; it lies inside the full box.
RECURSIVE Reserved(_, _, _)
Reserved(ls, o, edge) ==
    IF ls = <<>> THEN 0
    ELSE (IF Head(ls).output = o /\ Head(ls).mapped /\ Head(ls).current.anchor = edge
             /\ Head(ls).current.exclusive_zone > 0
          THEN Head(ls).current.exclusive_zone ELSE 0)
         + Reserved(Tail(ls), o, edge)

ExpectedUsable(o) ==
    LET r(edge) == Reserved(server.layers, o, edge)
    IN  [x |-> Usable.x + r("left"), y |-> Usable.y + r("top"),
         width |-> Usable.width - r("left") - r("right"),
         height |-> Usable.height - r("top") - r("bottom")]

BoxInside(b, full) ==
    /\ b.x >= full.x /\ b.y >= full.y
    /\ b.x + b.width <= full.x + full.width
    /\ b.y + b.height <= full.y + full.height

C33_UsableArea ==
    \A i \in DOMAIN server.outputs :
        /\ server.outputs[i].usable_area = ExpectedUsable(server.outputs[i].id)
        /\ BoxInside(server.outputs[i].usable_area, Usable)

\* A mapped surface has its positive zone reserved at the top of the output
\* while a committed surface of the same output that is not mapped reserves
\* nothing for its positive zone on the left.
C33_Witness ==
    \E i, j \in DOMAIN server.layers :
        /\ server.layers[i].mapped /\ ~server.layers[j].mapped
        /\ server.layers[i].output = server.layers[j].output
        /\ server.layers[i].current.anchor = "top"
        /\ server.layers[j].current.anchor = "left"
        /\ server.layers[j].current.exclusive_zone > 0
        /\ \E k \in DOMAIN server.outputs :
              /\ server.outputs[k].id = server.layers[i].output
              /\ server.outputs[k].usable_area.y > 0
              /\ server.outputs[k].usable_area.x = 0

\* A mapped surface with a positive zone has been unmapped and the output has
\* its full box back.
ZoneGivenBack ==
    /\ lastOp[1] = "handle_layer_surface_unmap"
    /\ \E i \in DOMAIN server.layers :
          /\ server.layers[i].id = lastOp[2]
          /\ server.layers[i].current.exclusive_zone > 0
          /\ \E k \in DOMAIN server.outputs :
                /\ server.outputs[k].id = server.layers[i].output
                /\ server.outputs[k].usable_area = Usable

\* C39: after a commit of a layer surface the surface is linked in the list of
\* its current layer (a wrapper has one link, so it is in one list only).
C39_LinkedInCurrentLayer ==
    lastOp[1] = "handle_layer_surface_commit" =>
        \A i \in DOMAIN server.layers :
            server.layers[i].id = lastOp[2]
                => server.layers[i].link = server.layers[i].current.layer

\* The same after the commits that are not the initial one.
LaterCommitLinked ==
    (lastOp[1] = "handle_layer_surface_commit" /\ lastOp[3] # "initial") =>
        \A i \in DOMAIN server.layers :
            (server.layers[i].id = lastOp[2]
               /\ "layer" \in server.layers[i].committed)
                => server.layers[i].link = server.layers[i].current.layer

\* An initial commit that followed a set_layer request has left the surface
\* in the list of the layer it was created on.
C39_Witness ==
    /\ lastOp[1] = "handle_layer_surface_commit"
    /\ lastOp[3] = "initial"
    /\ \E i \in DOMAIN server.layers :
          /\ server.layers[i].id = lastOp[2]
          /\ server.layers[i].link # server.layers[i].current.layer


\* C34: the focus animation settles.  At every point the animation values of
\* every view are within [0, 1]; after a frame no view's focus animation is
\* still active 200 ms or more after the focus change that started it, and a
\* view whose animation is not active has focus_animation 1 if it is focused
\* and 0 otherwise; with frames arriving, every active focus animation ends.
\* All of it also on a run that crosses the wrap of the 32-bit clock.
AnimationBounds ==
    \A i \in DOMAIN views :
        /\ RLe(R(0), views[i].focus_animation) /\ RLe(views[i].focus_animation, R(1))
        /\ RLe(R(0), views[i].map_animation) /\ RLe(views[i].map_animation, R(1))

FocusSettled ==
    \A i \in DOMAIN views :
        /\ (lastOp[1] = "frame" /\ views[i].focus_anim_active)
              => now_ms - views[i].focus_anim_start_ms < VIEW_FOCUS_ANIM_DURATION_MS
        /\ ~views[i].focus_anim_active
              => views[i].focus_animation = IF views[i].focused THEN R(1) ELSE R(0)

FocusAnimActive(id) ==
    \E i \in DOMAIN views : views[i].id = id /\ views[i].focus_anim_active

C34_FocusAnimationSettles ==
    /\ [](AnimationBounds /\ FocusSettled)
    /\ \A id \in 1..MaxViews : FocusAnimActive(id) ~> ~FocusAnimActive(id)

\* After the clock has wrapped, a frame has ended the animations of a focus
\* change made before the wrap: the view that lost the focus is back at 0 and
\* the view that took it is at 1.
C34_Witness ==
    /\ lastOp[1] = "frame"
    /\ now_ms > 0
    /\ \E i, j \in DOMAIN views :
          /\ views[i].focused /\ ~views[i].focus_anim_active
          /\ views[i].focus_anim_start_ms < 0
          /\ views[i].focus_animation = R(1)
          /\ ~views[j].focused /\ ~views[j].focus_anim_active
          /\ views[j].focus_anim_start_ms < 0
          /\ views[j].focus_animation = R(0)


(***************************************************************************)
(* C35: the gestures are over in passthrough mode.                         *)
(***************************************************************************)
\* A gesture of a view move, a canvas pan or a stroke is still recorded.
GestureFlags ==
    \/ \E i \in DOMAIN views : views[i].is_moving
    \/ canvas.is_panning
    \/ drawing.is_drawing

\* C35: whenever cursor_mode is PASSTHROUGH no view has is_moving set, the
\* canvas is not panning and no stroke is being drawn, whatever the order of
\* the presses and releases of the two buttons.
C35_PassthroughIdle ==
    (~fault /\ server.cursor_mode = INFINIDESK_CURSOR_PASSTHROUGH) => ~GestureFlags

\* A release has brought the mode back to PASSTHROUGH while the other button
\* is still held.
C35_Witness ==
    /\ ~fault
    /\ lastOp[1] = "button_release"
    /\ server.cursor_mode = INFINIDESK_CURSOR_PASSTHROUGH
    /\ pressed # {}

\* A release ends the gesture of the mode it finds: the flag of that mode is
\* clear afterwards (the flag of an earlier gesture that the mode no longer
\* names is the one left behind).
ReleaseEndsCurrentGesture ==
    (~fault /\ lastOp[1] = "button_release") =>
        /\ server.cursor_mode = INFINIDESK_CURSOR_PASSTHROUGH
        /\ lastOp[2] = INFINIDESK_CURSOR_PAN => ~canvas.is_panning
        /\ lastOp[2] = INFINIDESK_CURSOR_DRAW => ~drawing.is_drawing


(***************************************************************************)
(* C36: one focused view, the one the seat's keyboard focus is on.         *)
(***************************************************************************)
FocusedViews == { views[i].id : i \in { j \in DOMAIN views : views[j].focused } }

\* C36: at most one view has focused set, and when the seat's keyboard focus
\* is on the surface of a view that view is the focused one, after every
\* map, unmap, destroy, click, focus-follows-mouse motion and switcher
\* confirm, with or without a keyboard attached.
C36_SingleFocus ==
    ~fault =>
        /\ Cardinality(FocusedViews) <= 1
        /\ server.focused_surface \in ViewIds(views)
              => FocusedViews = {server.focused_surface}

\* With no keyboard attached a focus operation has marked a view focused.
C36_Witness ==
    /\ ~fault
    /\ server.seat_keyboard = NULL
    /\ FocusedViews # {}
    /\ lastOp[1] \in {"handle_map", "view_focus", "cursor_motion", "switcher_confirm"}

\* While a keyboard is attached from the start and stays, the focus is on
\* one view and the seat agrees with it.
SingleFocusWithKeyboard ==
    (~fault /\ server.seat_keyboard # NULL) =>
        /\ Cardinality(FocusedViews) <= 1
        /\ server.focused_surface \in ViewIds(views)
              => FocusedViews = {server.focused_surface}


(***************************************************************************)
(* C37: a key reaches the client with both its press and its release, or   *)
(* with neither.                                                           *)
(***************************************************************************)
\* C37: the release of a key is forwarded to the focused client exactly when
\* its press was: a press consumed by a compositor binding is followed by a
\* release that is not forwarded, an unhandled press by a forwarded release.
C37_KeyPairsMatched ==
    lastOp[1] = "key_released" => lastOp[4] = lastOp[5]

\* The bound key has been released after a press that the binding consumed.
C37_Witness ==
    /\ lastOp[1] = "key_released"
    /\ lastOp[3] = XKB_KEY_d
    /\ lastOp[4] = FALSE

\* Every release is forwarded, and so is every press that no binding took.
ReleasesForwarded ==
    /\ lastOp[1] = "key_released" => lastOp[5]
    /\ (lastOp[1] = "key_pressed" /\ ~lastOp[4]) => lastOp[3] = XKB_KEY_d

(***************************************************************************)
(* C38: super_pressed follows the canvas-modifier keys.                    *)
(***************************************************************************)
ModifiersHeld == { h \in server.held : h[2] \in ModifierKeys }

\* C38: super_pressed is true exactly when at least one canvas-modifier key
\* (left or right, on any keyboard) is held.
C38_SuperTracksModifiers ==
    server.super_pressed <=> ModifiersHeld # {}

\* One of two held modifier keys has been released.
C38_Witness ==
    /\ lastOp[1] = "key_released"
    /\ lastOp[3] \in ModifierKeys
    /\ ModifiersHeld # {}

\* super_pressed is the state of the last modifier key event, and it agrees
\* with the keys held as long as no two modifier keys were down together.
SuperIsLastModifierEvent ==
    /\ (lastOp[1] = "key_pressed" /\ lastOp[3] \in ModifierKeys) => server.super_pressed
    /\ (lastOp[1] = "key_released" /\ lastOp[3] \in ModifierKeys) => ~server.super_pressed

====
